---- MODULE Spec2Model ----
(***************************************************************************)
(* Model of the lookuply log monitor (src/monitor): the parsers, the       *)
(* Dashboard aggregator, the ingestion workers of LogMonitor and its       *)
(* shutdown path.                                                          *)
(*                                                                         *)
(* Python values are modelled as follows.                                  *)
(*   - a deque / list is a sequence, oldest element first;                 *)
(*   - a dict is a function whose DOMAIN is the set of keys present; the   *)
(*     Counter request_stats, whose key order matters to most_common, is   *)
(*     a sequence of <<key, count>> pairs in insertion order;              *)
(*   - None is the record None, which differs from every dict, the empty   *)
(*     dict included;                                                      *)
(*   - a LogEntry is a record of its five fields.                          *)
(***************************************************************************)
EXTENDS Integers, Sequences, FiniteSets, TLC

VARIABLES
    max_errors,         \* Dashboard.max_errors (maxlen of errors)
    max_logs,           \* Dashboard.max_logs (maxlen of logs)
    logs,               \* Dashboard.logs
    errors,             \* Dashboard.errors
    request_stats,      \* Dashboard.request_stats
    service_status,     \* Dashboard.service_status
    ai_stats,           \* Dashboard.ai_stats
    view,               \* the panels produced by the render pass
    passes,             \* history: the render passes completed
    mc,                 \* the dict iterator of a most_common call in progress
    fetch_hist,         \* history: the last fetch and whether one succeeded
    calls,              \* history: the add_log calls made, in call order
    config,             \* LogMonitor.config: docker_containers and log_files
    running,            \* LogMonitor.running
    docker_processes,   \* LogMonitor.docker_processes
    proc,               \* the `docker logs -f` child process of each worker
    pc,                 \* where each ingestion worker thread is
    cur,                \* the entry of the add_log call a worker is in
    tmp,                \* the counter value that call has read
    fidx,               \* the log file monitor_files_loop is at
    observed,           \* history: the workers that have read running = False
    file_lines,         \* the lines of each configured log file
    file_mode,          \* each log file is there, missing or unreadable
    file_positions,     \* LogMonitor.file_positions
    nread,              \* the lines a worker has read from its stream, or
                        \* the offset of the file it has open
    unavail,            \* history: the sources found unavailable
    mpc,                \* where the main thread is
    fin,                \* the main thread has entered the finally block of run
    cidx,               \* the processes the running cleanup loop has passed
    exit_status,        \* the exit status of the process, once it has exited
    signals,            \* history: the number of signals delivered
    pline,              \* SpecParse: the line given to the parser
    pparser,            \* SpecParse: the parser class
    presult             \* SpecParse: what parse returned

dashVars == <<max_errors, max_logs, logs, errors, request_stats,
              service_status, ai_stats>>
viewVars == <<view, passes, mc, fetch_hist>>
threadVars == <<pc, cur, tmp, fidx, observed>>
procVars == <<docker_processes, proc>>
srcVars == <<file_lines, file_mode, file_positions, nread, unavail>>
mainVars == <<mpc, running, fin, cidx, exit_status, signals>>
parseVars == <<pline, pparser, presult>>
monVars == <<config, threadVars, procVars, srcVars, mainVars>>
vars == <<dashVars, viewVars, calls, monVars, parseVars>>

-----------------------------------------------------------------------------
(* Bounds of the model. *)

\* add_log calls made in one behaviour of the Dashboard alone
MaxCalls == 3
\* add_log calls made by the ingestion workers in one behaviour
MaxIngest == 2
\* render passes made in one behaviour
MaxPasses == 2
\* max_errors and max_logs are configured in 0..MaxCap
MaxCap == 2
\* signals delivered in one behaviour
MaxSignals == 2
\* lines a live stream delivers in one behaviour
MaxStream == 2
\* lines written to one log file in one behaviour
MaxFileLen == 2

-----------------------------------------------------------------------------
(* Python values. *)

None == [none |-> TRUE]
EmptyDict == [k \in {} |-> 0]

\* bool(x) of an Optional[dict]
Truthy(x) == x # None /\ DOMAIN x # {}

\* d[k] = v on a dict
DictSet(d, k, v) == [j \in DOMAIN d \cup {k} |-> IF j = k THEN v ELSE d[j]]

\* d.get(k, default)
DictGet(d, k, default) == IF k \in DOMAIN d THEN d[k] ELSE default

Range(s) == {s[i] : i \in 1..Len(s)}

Reverse(s) == [i \in 1..Len(s) |-> s[Len(s) + 1 - i]]

\* the last n elements of s, in order
LastN(s, n) == IF Len(s) <= n THEN s ELSE SubSeq(s, Len(s) - n + 1, Len(s))

LogEntry(timestamp, service, level, message, extra) ==
    [timestamp |-> timestamp, service |-> service, level |-> level,
     message |-> message, extra |-> extra]

-----------------------------------------------------------------------------
(* Dashboard (src/monitor/dashboard.py). *)

\* a bounded buffer that refuses the new element when it is full
DequeAppendDropsNewest(q, x, maxlen) ==
    IF Len(q) >= maxlen THEN q ELSE Append(q, x)

\* deque(maxlen=n).append(x): a full deque drops its oldest element
DequeAppend(q, x, maxlen) ==
    IF maxlen = 0 THEN q
    ELSE IF Len(q) >= maxlen THEN Append(Tail(q), x)
    ELSE Append(q, x)

\* entry.level in ("ERROR", "CRITICAL")
IsErrorLevel(entry) == entry.level \in {"ERROR", "CRITICAL"}

\* entry.extra and "path" in entry.extra
HasPath(entry) == Truthy(entry.extra) /\ "path" \in DOMAIN entry.extra

\* Counter.__getitem__: a missing key reads as 0 and is not inserted
CounterGet(c, k) ==
    IF \E i \in 1..Len(c) : c[i][1] = k
    THEN LET i == CHOOSE i \in 1..Len(c) : c[i][1] = k IN c[i][2]
    ELSE 0

\* Counter.__setitem__: an existing key keeps its place, a new one goes last
CounterSet(c, k, v) ==
    IF \E i \in 1..Len(c) : c[i][1] = k
    THEN [i \in 1..Len(c) |-> IF c[i][1] = k THEN <<k, v>> ELSE c[i]]
    ELSE Append(c, <<k, v>>)

\* The four statements of add_log, each on the collection it touches.
LogsAppend(q, entry) == DequeAppend(q, entry, max_logs)

\* an error history that takes entries of every level
ErrorsAppendAlways(q, entry) == DequeAppend(q, entry, max_errors)

ErrorsAppend(q, entry) ==
    IF IsErrorLevel(entry) THEN DequeAppend(q, entry, max_errors) ELSE q

\* a health map that keeps only the service of the newest entry
StatusUpdateOnly(st, entry) == [j \in {entry.service} |-> "healthy"]

StatusUpdate(st, entry) == DictSet(st, entry.service, "healthy")

\* a counter update that counts every entry with extra fields
StatsUpdateAnyExtra(c, entry) ==
    IF Truthy(entry.extra)
    THEN CounterSet(c, DictGet(entry.extra, "path", "/"),
                    CounterGet(c, DictGet(entry.extra, "path", "/")) + 1)
    ELSE c

StatsUpdate(c, entry) ==
    IF HasPath(entry)
    THEN CounterSet(c, entry.extra["path"], CounterGet(c, entry.extra["path"]) + 1)
    ELSE c

-----------------------------------------------------------------------------
(* The panels of Dashboard.render.  A panel is modelled by the data it     *)
(* shows; a table row by the entry (or the path and count) it is made of.  *)

\* the services of render_status
PanelServices == {"coordinator", "search_api", "celery", "nginx"}

\* the n of request_stats.most_common(n) in render_requests
TopK == 5

\* render_status: self.service_status.get(service, "unknown") per service
RenderStatus(st) == [s \in PanelServices |-> DictGet(st, s, "unknown")]

\* rows in buffer order
RowsOldestFirst(q) == [empty |-> q = <<>>, rows |-> q]

\* reversed(self.errors) / reversed(self.logs), and the empty-state text
RowsNewestFirst(q) == [empty |-> q = <<>>, rows |-> Reverse(q)]

RenderErrors(q) == RowsNewestFirst(q)

RenderLogs(q) == RowsNewestFirst(q)

\* sum(self.request_stats.values())
RECURSIVE SumCounts(_)
SumCounts(c) == IF c = <<>> THEN 0 ELSE c[1][2] + SumCounts(Tail(c))

\* item put into a list sorted by descending count, before its equals
RECURSIVE InsertBeforeEquals(_, _)
InsertBeforeEquals(sorted, item) ==
    IF sorted = <<>> THEN <<item>>
    ELSE IF sorted[1][2] > item[2]
    THEN <<sorted[1]>> \o InsertBeforeEquals(Tail(sorted), item)
    ELSE <<item>> \o sorted

\* item put into a list sorted by descending count, after its equals
RECURSIVE InsertByCount(_, _)
InsertByCount(sorted, item) ==
    IF sorted = <<>> THEN <<item>>
    ELSE IF sorted[1][2] >= item[2]
    THEN <<sorted[1]>> \o InsertByCount(Tail(sorted), item)
    ELSE <<item>> \o sorted

\* sorted(items, key=count, reverse=True): stable, so ties keep dict order
RECURSIVE SortedByCount(_)
SortedByCount(c) ==
    IF c = <<>> THEN <<>>
    ELSE InsertByCount(SortedByCount(SubSeq(c, 1, Len(c) - 1)), c[Len(c)])

\* Counter.most_common(n)
MostCommon(c, n) == SubSeq(SortedByCount(c), 1, IF Len(c) < n THEN Len(c) ELSE n)

RenderRequests(c) ==
    [empty |-> c = <<>>, total |-> SumCounts(c), top |-> MostCommon(c, TopK)]

\* a completion that is the fraction itself, not a percentage
CompletionFraction(evaluated, total) ==
    IF total > 0 THEN [num |-> evaluated, den |-> total]
    ELSE [num |-> 0, den |-> 1]

\* completion = 0; if total > 0: completion = (evaluated / total) * 100.
\* The quotient is kept as the fraction num / den.
Completion(evaluated, total) ==
    IF total > 0 THEN [num |-> evaluated * 100, den |-> total]
    ELSE [num |-> 0, den |-> 1]

\* render_ai_progress after the fetch: the connecting text, or the numbers
RenderAiProgress(stats) ==
    IF ~Truthy(stats)
    THEN [connecting |-> TRUE, pending |-> 0, processing |-> 0,
          evaluated |-> 0, failed |-> 0, workers |-> 0, total |-> 0,
          completion |-> Completion(0, 0)]
    ELSE LET pending == DictGet(stats, "pending_pages", 0)
             processing == DictGet(stats, "processing_pages", 0)
             evaluated == DictGet(stats, "evaluated_pages", 0)
             failed == DictGet(stats, "failed_pages", 0)
         IN [connecting |-> FALSE, pending |-> pending,
             processing |-> processing, evaluated |-> evaluated,
             failed |-> failed, workers |-> DictGet(stats, "workers_active", 0),
             total |-> pending + processing + evaluated + failed,
             completion |-> Completion(evaluated, pending + processing
                                                      + evaluated + failed)]

\* the JSON objects the coordinator answers with
FetchBodies ==
    {EmptyDict,
     [pending_pages |-> 2],
     [pending_pages |-> 1, processing_pages |-> 0, evaluated_pages |-> 1,
      failed_pages |-> 0, workers_active |-> 1]}

\* what requests.get and response.json() do in fetch_ai_stats: requests.get
\* raises (raised), or returns a response with a status code and a body
\* that response.json() decodes or not
Response(status, decodable, body) ==
    [raised |-> "", status |-> status, decodable |-> decodable, body |-> body]

RequestRaised(exception) ==
    [raised |-> exception, status |-> 0, decodable |-> FALSE,
     body |-> EmptyDict]

FetchOutcomes ==
    {Response(200, TRUE, b) : b \in FetchBodies}
        \cup {Response(500, TRUE, [pending_pages |-> 2]),
              Response(200, FALSE, EmptyDict),
              RequestRaised("ConnectionError"), RequestRaised("Timeout")}

\* the fetch sets self.ai_stats
FetchSucceeds(outcome) ==
    outcome.raised = "" /\ outcome.status = 200 /\ outcome.decodable

\* a fetch that keeps the fields of the previous snapshot the new one lacks
FetchMerges(stats, outcome) ==
    IF ~FetchSucceeds(outcome) THEN stats
    ELSE IF stats = None THEN outcome.body
    ELSE [k \in DOMAIN stats \cup DOMAIN outcome.body |->
             IF k \in DOMAIN outcome.body THEN outcome.body[k] ELSE stats[k]]

\* fetch_ai_stats: the value of self.ai_stats after the fetch
FetchResult(stats, outcome) ==
    IF outcome.raised # "" THEN stats
    ELSE IF outcome.status # 200 THEN stats
    ELSE IF ~outcome.decodable THEN stats
    ELSE outcome.body

\* no fetch has been made
NoFetch == [last |-> RequestRaised("none"), before |-> None,
            succeeded |-> FALSE, url |-> ""]

\* self.coordinator_url of the Dashboard that LogMonitor.__init__ builds:
\* it passes max_errors and max_logs only, so the default of the parameter
CoordinatorUrl == "http://localhost:8000"

\* f"{self.coordinator_url}/coordinator/worker-stats"
FetchUrl(base) == base \o "/coordinator/worker-stats"

\* the history after a fetch made when self.ai_stats was stats
Fetched(hist, stats, outcome) ==
    [last |-> outcome, before |-> stats,
     succeeded |-> hist.succeeded \/ FetchSucceeds(outcome),
     url |-> FetchUrl(CoordinatorUrl)]

\* no most_common call is iterating over request_stats
NoIterator == [active |-> FALSE, used |-> 0, idx |-> 0, items |-> <<>>,
               total |-> 0]

\* the panels before the first render pass
NoView ==
    [rendered |-> FALSE,
     status |-> [s \in PanelServices |-> "unknown"],
     ai |-> RenderAiProgress(None),
     requests |-> RenderRequests(<<>>),
     errors |-> RenderErrors(<<>>),
     logs |-> RenderLogs(<<>>),
     logs_at |-> 0]

-----------------------------------------------------------------------------
(* Log lines.                                                              *)
(*                                                                         *)
(* A raw line is modelled by the text shape it has and by the pieces the   *)
(* parsers' regular expressions capture from a line of that shape:         *)
(*   shape   which grammar the text has ("blank": empty or whitespace,     *)
(*           "text": none of the structured grammars)                      *)
(*   level   the level token as written in the line                        *)
(*   month, hour   the month and hour digits of the line's date and time   *)
(*           (each two digits, so 13 and 25 match \d{2})                   *)
(*   status, method, path   the request fields                              *)
(*   msg     the message part, or the whole text of a "text" line          *)
(*   kw      the keywords of the parsers' substring tests that occur in    *)
(*           the raw text, as written                                      *)
(*   total, new, dupes, url   the numbers and the URL of a crawler         *)
(*           "Discovered N links from URL: X new, Y duplicates" line       *)
(*   part    "whole" for a line written with its newline in one piece; a   *)
(*           line written in two pieces is a "head" (no newline yet) and,  *)
(*           once the writer has finished it, a "tail" after it            *)

BaseLine ==
    [shape |-> "text", level |-> "", month |-> 1, hour |-> 0, status |-> 0,
     method |-> "", path |-> "", msg |-> "", kw |-> {},
     total |-> 0, new |-> 0, dupes |-> 0, url |-> "", part |-> "whole"]

BlankLine == [BaseLine EXCEPT !.shape = "blank"]

\* 'LEVEL:     IP:PORT - "METHOD PATH HTTP/1.1" STATUS OK'
UvicornLine(level, method, path, status) ==
    [BaseLine EXCEPT !.shape = "uvicorn", !.level = level, !.method = method,
                     !.path = path, !.status = status, !.kw = {level}]

\* '[GIN] YYYY/MM/DD - HH:MM:SS | STATUS | duration | ip | METHOD "PATH"'
GinLine(month, hour, status, method, path) ==
    [BaseLine EXCEPT !.shape = "gin", !.month = month, !.hour = hour,
                     !.status = status, !.method = method, !.path = path]

\* '[YYYY-MM-DD HH:MM:SS,mmm: LEVEL/MainProcess] message'
CeleryLine(month, hour, level, msg) ==
    [BaseLine EXCEPT !.shape = "celery", !.month = month, !.hour = hour,
                     !.level = level, !.msg = msg, !.kw = {level}]

\* 'YYYY-MM-DD HH:MM:SS - LEVEL - message'
CoordinatorLine(month, hour, level, msg) ==
    [BaseLine EXCEPT !.shape = "coordinator", !.month = month, !.hour = hour,
                     !.level = level, !.msg = msg, !.kw = {level}]

\* '127.0.0.1 - - [date] "METHOD PATH HTTP/1.1" STATUS ...'
NginxAccessLine(method, path, status) ==
    [BaseLine EXCEPT !.shape = "nginx_access", !.method = method,
                     !.path = path, !.status = status]

\* 'YYYY/MM/DD HH:MM:SS [level] pid#tid: message'
NginxErrorLine(month, hour, level, msg) ==
    [BaseLine EXCEPT !.shape = "nginx_error", !.month = month, !.hour = hour,
                     !.level = level, !.msg = msg, !.kw = {level}]

\* 'Discovered N links from URL: X new, Y duplicates'
DiscoveredLine(total, url, new, dupes) ==
    [BaseLine EXCEPT !.shape = "discovered", !.total = total, !.url = url,
                     !.new = new, !.dupes = dupes,
                     !.msg = "Discovered " \o ToString(total)
                                 \o " links from " \o url \o ": "
                                 \o ToString(new) \o " new, "
                                 \o ToString(dupes) \o " duplicates"]

\* any other text
TextLine(msg, kw) == [BaseLine EXCEPT !.msg = msg, !.kw = kw]

\* the text of one piece of a line written in two pieces, cut before the
\* first field of the line: neither piece matches a structured grammar
Fragment(line) ==
    [BaseLine EXCEPT !.msg = IF line.part = "head" THEN "(beginning of a line)"
                                                   ELSE "(rest of a line)"]

\* line.strip() is empty
IsBlank(line) == line.shape = "blank"

\* str.upper() on the level tokens of the model
Upper(tok) ==
    CASE tok = "info" -> "INFO"
      [] tok = "debug" -> "DEBUG"
      [] tok = "notice" -> "NOTICE"
      [] tok = "warn" -> "WARN"
      [] tok = "warning" -> "WARNING"
      [] tok = "error" -> "ERROR"
      [] tok = "crit" -> "CRIT"
      [] tok = "critical" -> "CRITICAL"
      [] tok = "alert" -> "ALERT"
      [] tok = "emerg" -> "EMERG"
      [] OTHER -> tok

\* the lower-case keywords that occur in kw.lower()
LowerParts(k) ==
    CASE k \in {"error", "Error:", "ERROR", "ModuleNotFoundError:"} -> {"error"}
      [] k \in {"exception", "Exception:"} -> {"exception"}
      [] k \in {"failed", "Failed"} -> {"failed"}
      [] k \in {"traceback", "Traceback"} -> {"traceback"}
      [] k \in {"warning", "WARNING", "Warning"} -> {"warning", "warn"}
      [] k \in {"warn", "WARN"} -> {"warn"}
      [] OTHER -> {}

\* the case-sensitive keywords that occur in a keyword as written
ExactParts(k) ==
    CASE k \in {"Error:", "ModuleNotFoundError:"} -> {"Error:"}
      [] k = "Exception:" -> {"Exception:"}
      [] k = "Traceback" -> {"Traceback"}
      [] k = "raise " -> {"raise "}
      [] OTHER -> {}

\* keyword in line.lower()
ContainsLower(line, keyword) == \E k \in line.kw : keyword \in LowerParts(k)

\* keyword in line
Contains(line, keyword) == \E k \in line.kw : keyword \in ExactParts(k)

\* ':' in url, for the URLs of the model
UrlHasColon(url) == url \in {"https://example.com", "http://a.io/x"}

-----------------------------------------------------------------------------
(* Parsers (src/monitor/parsers).  parse returns a LogEntry, None          *)
(* ("absent") or raises; the result is [kind, entry].                      *)

NoEntry == LogEntry(0, "", "", "", None)
Parsed(entry) == [kind |-> "entry", entry |-> entry]
\* a result that hands the caller an entry where parse returned None
AbsentAsEntry == [kind |-> "entry", entry |-> NoEntry]
Absent == [kind |-> "absent", entry |-> NoEntry]
NotParsed == [kind |-> "none", entry |-> NoEntry]
Raised == [kind |-> "raise", entry |-> NoEntry]

\* datetime.strptime accepts the date and time digits
StrptimeOk(month, hour) == month \in 1..12 /\ hour \in 0..23

\* the datetime strptime returns, as a number ordered like the datetime
Stamp(month, hour) == month * 100 + hour

\* a mapping whose thresholds are one too high
StatusLevelAbove(status) ==
    IF status > 500 THEN "ERROR"
    ELSE IF status > 400 THEN "WARNING"
    ELSE "INFO"

\* status < 400: INFO, 400..499: WARNING, >= 500: ERROR
StatusLevel(status) ==
    IF status >= 500 THEN "ERROR"
    ELSE IF status >= 400 THEN "WARNING"
    ELSE "INFO"

\* the table of UvicornParser.parse and CeleryParser.parse, default INFO
LevelTable(level_str) ==
    CASE Upper(level_str) = "INFO" -> "INFO"
      [] Upper(level_str) = "WARNING" -> "WARNING"
      [] Upper(level_str) = "ERROR" -> "ERROR"
      [] Upper(level_str) = "CRITICAL" -> "CRITICAL"
      [] Upper(level_str) = "DEBUG" -> "INFO"
      [] OTHER -> "INFO"

\* a message that leaves the method out
RequestMessageNoMethod(method, path, status) ==
    path \o " -> " \o ToString(status)

\* f"{method} {path} -> {status}" (the arrow is U+2192 in the source)
RequestMessage(method, path, status) ==
    method \o " " \o path \o " -> " \o ToString(status)

UvicornParse(line, now) ==
    IF line.shape # "uvicorn" THEN Absent
    ELSE LET table == LevelTable(line.level)
             level == IF table = "INFO" /\ line.status >= 400
                      THEN StatusLevel(line.status) ELSE table
         IN Parsed(LogEntry(now, "api", level,
                            RequestMessage(line.method, line.path, line.status),
                            [method |-> line.method, path |-> line.path,
                             status |-> line.status, client |-> "ip:port"]))

GinParse(line, now) ==
    IF line.shape # "gin" THEN Absent
    ELSE IF ~StrptimeOk(line.month, line.hour) THEN Raised
    ELSE Parsed(LogEntry(Stamp(line.month, line.hour), "ai_evaluator",
                         StatusLevel(line.status),
                         RequestMessage(line.method, line.path, line.status),
                         [method |-> line.method, path |-> line.path,
                          status |-> line.status]))

\* the fallback of CeleryParser.parse for a line CELERY_PATTERN does not match
CeleryFallback(line, now) ==
    LET level == IF \E k \in {"Error:", "Exception:", "Traceback", "raise "} :
                        Contains(line, k)
                 THEN "ERROR"
                 ELSE IF \E k \in {"warning", "warn"} : ContainsLower(line, k)
                 THEN "WARNING"
                 ELSE "INFO"
    IN \* extra is not passed: the dataclass default, an empty dict
       Parsed(LogEntry(now, "celery", level, line.msg, EmptyDict))

CeleryParse(line, now) ==
    IF IsBlank(line) THEN Absent
    ELSE IF line.shape = "celery"
    THEN IF ~StrptimeOk(line.month, line.hour) THEN Raised
         ELSE Parsed(LogEntry(Stamp(line.month, line.hour), "celery",
                               LevelTable(line.level), line.msg, EmptyDict))
    ELSE CeleryFallback(line, now)

CoordinatorParse(line, now) ==
    IF line.shape # "coordinator" THEN Absent
    ELSE IF ~StrptimeOk(line.month, line.hour) THEN Absent
    ELSE Parsed(LogEntry(Stamp(line.month, line.hour), "coordinator",
                          line.level, line.msg, EmptyDict))

CrawlerParse(line, now) ==
    IF IsBlank(line) THEN Absent
    ELSE LET level ==
                 IF \E k \in {"error", "exception", "failed", "traceback"} :
                        ContainsLower(line, k)
                 THEN "ERROR"
                 ELSE IF \E k \in {"warning", "warn"} : ContainsLower(line, k)
                 THEN "WARNING"
                 ELSE "INFO"
             discovered == line.shape = "discovered" /\ ~UrlHasColon(line.url)
         IN IF discovered
            THEN Parsed(LogEntry(now, "crawler", level,
                     "Discovered " \o ToString(line.new) \o " new links from "
                         \o line.url \o "...",
                     [total_links |-> line.total, new_links |-> line.new,
                      duplicate_links |-> line.dupes, source_url |-> line.url]))
            ELSE Parsed(LogEntry(now, "crawler", level, line.msg, None))

NginxAccessParse(line, now) ==
    IF line.shape \notin {"nginx_access", "uvicorn"} THEN Absent
    ELSE Parsed(LogEntry(now, "nginx", StatusLevel(line.status),
                         RequestMessage(line.method, line.path, line.status),
                         [method |-> line.method, path |-> line.path,
                          status |-> line.status]))

NginxErrorParse(line, now) ==
    IF line.shape # "nginx_error" THEN Absent
    ELSE IF ~StrptimeOk(line.month, line.hour) THEN Absent
    ELSE Parsed(LogEntry(Stamp(line.month, line.hour), "nginx",
                          Upper(line.level), line.msg, EmptyDict))

ParserNames ==
    {"UvicornParser", "GinParser", "CrawlerParser", "CeleryParser",
     "NginxAccessParser", "NginxErrorParser", "CoordinatorParser"}

\* parser.parse(line), for the parser class named
Parse(parser, line, now) ==
    CASE parser = "UvicornParser" -> UvicornParse(line, now)
      [] parser = "GinParser" -> GinParse(line, now)
      [] parser = "CrawlerParser" -> CrawlerParse(line, now)
      [] parser = "CeleryParser" -> CeleryParse(line, now)
      [] parser = "NginxAccessParser" -> NginxAccessParse(line, now)
      [] parser = "NginxErrorParser" -> NginxErrorParse(line, now)
      [] parser = "CoordinatorParser" -> CoordinatorParse(line, now)

-----------------------------------------------------------------------------
(* LogMonitor (src/monitor/lookuply-monitor.py).                           *)
(*                                                                         *)
(* config.docker is the set of keys of config["docker_containers"]: run    *)
(* starts one follow_docker_logs thread per key, named here by the key.    *)
(* config.files is the sequence of keys of config["log_files"], which the  *)
(* single monitor_files_loop thread, FileThread, tails in turn.            *)

FileThread == "files"

\* self.parsers: the parser class registered for each service name
MonitorParsers ==
    [coordinator |-> "UvicornParser", search_api |-> "UvicornParser",
     celery |-> "CeleryParser", crawler |-> "CrawlerParser",
     ai_evaluator |-> "GinParser", nginx_access |-> "NginxAccessParser",
     nginx_error |-> "NginxErrorParser"]

\* the configuration of Spec: one container and one log file
MonitorConfig == [docker |-> {"coordinator"}, files |-> <<"nginx_access">>]

\* the lines the source of a service writes
SourceLines(service) ==
    CASE service = "coordinator" ->
             {UvicornLine("INFO", "GET", "/a", 200),
              UvicornLine("INFO", "GET", "/a", 500),
              TextLine("Application startup complete.", {})}
      [] service = "nginx_access" ->
             {NginxAccessLine("GET", "/a", 200),
              NginxAccessLine("GET", "/a", 502)}
      [] service = "ai_evaluator" ->
             {GinLine(12, 23, 200, "GET", "/api/tags"),
              GinLine(13, 25, 200, "GET", "/api/tags")}
      [] service = "nginx_error" ->
             {NginxErrorLine(12, 23, "error", "upstream timed out"),
              BlankLine}
      [] service = "redis" ->
             {TextLine("Ready to accept connections", {}), BlankLine}
      [] service = "search_api" ->
             {UvicornLine("INFO", "GET", "/search", 200),
              UvicornLine("INFO", "GET", "/p1", 200)}
      [] OTHER -> {BlankLine}

\* the answers of the coordinator while the monitor runs
MonitorFetchOutcomes ==
    {Response(200, TRUE, [pending_pages |-> 1, processing_pages |-> 0,
                          evaluated_pages |-> 1, failed_pages |-> 0,
                          workers_active |-> 1]),
     RequestRaised("ConnectionError")}

\* datetime.now() at the time a line is parsed
NowValues == {5}

Threads == config.docker \cup {FileThread}

\* the service a worker is configured with for the line it is handling
SourceOf(w) ==
    IF w # FileThread THEN w
    ELSE IF fidx \in 1..Len(config.files) THEN config.files[fidx] ELSE "none"

\* the worker is inside Dashboard.add_log
AddLogPcs == {"al_logs", "al_errors", "al_status", "al_get", "al_set"}

\* where a worker continues when add_log returns
AfterAddLog(w) == IF w = FileThread THEN "readline" ELSE "read"

\* the process has not exited: daemon threads run only as long as it lives
Alive == mpc # "exited"

\* LogMonitor.__init__ with configuration c, before run()
InitMonitor(c) ==
    /\ config = c
    /\ running = TRUE
    /\ docker_processes = <<>>
    /\ proc = [w \in c.docker |-> "none"]
    /\ pc = [w \in c.docker \cup {FileThread} |-> "off"]
    /\ cur = [w \in c.docker \cup {FileThread} |-> NoEntry]
    /\ tmp = [w \in c.docker \cup {FileThread} |-> 0]
    /\ fidx = 0
    /\ observed = {}
    /\ file_lines = [s \in Range(c.files) |-> <<>>]
    /\ file_mode = [s \in Range(c.files) |-> "ok"]
    /\ file_positions = EmptyDict
    /\ nread = [w \in c.docker \cup {FileThread} |-> 0]
    /\ unavail = {}
    /\ mpc = "run"
    /\ fin = FALSE
    /\ cidx = 0
    /\ exit_status = "none"
    /\ signals = 0

\* no parser is under test
InitNoParse ==
    /\ pline = BlankLine
    /\ pparser = "none"
    /\ presult = NotParsed

\* Dashboard.__init__
InitDashboard(maxErrors, maxLogs) ==
    /\ max_errors = maxErrors
    /\ max_logs = maxLogs
    /\ logs = <<>>
    /\ errors = <<>>
    /\ request_stats = <<>>
    /\ service_status = EmptyDict
    /\ ai_stats = None
    /\ view = NoView
    /\ passes = 0
    /\ mc = NoIterator
    /\ fetch_hist = NoFetch
    /\ calls = <<>>

\* the defaults of LogMonitor.__init__ for max_errors and max_logs
DefaultMaxErrors == 10
DefaultMaxLogs == 5

\* LogMonitor(config_path) for a configuration without a dashboard section
Init ==
    /\ InitDashboard(DefaultMaxErrors, DefaultMaxLogs)
    /\ InitMonitor(MonitorConfig)
    /\ InitNoParse

\* run: start_docker_monitoring starts one thread per container
StartDockerMonitoring ==
    /\ mpc = "run"
    /\ pc' = [w \in DOMAIN pc |-> IF w \in config.docker THEN "popen" ELSE pc[w]]
    /\ mpc' = "start_files"
    /\ UNCHANGED <<dashVars, viewVars, calls, config, cur, tmp, fidx, observed,
                   procVars, running, fin, cidx, exit_status, signals, parseVars, srcVars>>

\* run: file_monitor_thread.start()
StartFileMonitor ==
    /\ mpc = "start_files"
    /\ pc' = [pc EXCEPT ![FileThread] = "check"]
    /\ mpc' = "install"
    /\ UNCHANGED <<dashVars, viewVars, calls, config, cur, tmp, fidx, observed,
                   procVars, running, fin, cidx, exit_status, signals, parseVars, srcVars>>

\* run: signal.signal(SIGINT, ...), signal.signal(SIGTERM, ...); the main
\* thread enters the try block and the first render
InstallHandlers ==
    /\ mpc = "install"
    /\ mpc' = "render_status"
    /\ UNCHANGED <<dashVars, viewVars, calls, config, threadVars, procVars,
                   running, fin, cidx, exit_status, signals, parseVars, srcVars>>

\* follow_docker_logs: subprocess.Popen(['docker', 'logs', '-f', ...])
Popen(w) ==
    /\ Alive
    /\ pc[w] = "popen"
    /\ proc' = [proc EXCEPT ![w] = "running"]
    /\ pc' = [pc EXCEPT ![w] = "register"]
    /\ UNCHANGED <<dashVars, viewVars, calls, config, cur, tmp, fidx, observed,
                   docker_processes, mainVars, parseVars, srcVars>>

\* follow_docker_logs: Popen raises FileNotFoundError, the worker returns
PopenFails(w) ==
    /\ Alive
    /\ pc[w] = "popen"
    /\ pc' = [pc EXCEPT ![w] = "done"]
    /\ unavail' = unavail \cup {w}
    /\ UNCHANGED <<dashVars, viewVars, calls, config, cur, tmp, fidx, observed,
                   procVars, mainVars, parseVars, file_lines, file_mode,
                   file_positions, nread>>

\* follow_docker_logs: self.docker_processes.append(process)
Register(w) ==
    /\ Alive
    /\ pc[w] = "register"
    /\ docker_processes' = Append(docker_processes, w)
    /\ pc' = [pc EXCEPT ![w] = "read"]
    /\ UNCHANGED <<dashVars, viewVars, calls, config, cur, tmp, fidx, observed,
                   proc, mainVars, parseVars, srcVars>>

\* the body of follow_docker_logs's read loop for a line, up to the call
\* of add_log.  A parser that raises ends the worker through
\* `except Exception`.
HandleLine(w, line, now) ==
    IF IsBlank(line) \/ SourceOf(w) \notin DOMAIN MonitorParsers
    THEN UNCHANGED <<pc, cur, fidx>>
    ELSE LET result == Parse(MonitorParsers[SourceOf(w)], line, now)
         IN CASE result.kind = "entry" ->
                     /\ cur' = [cur EXCEPT ![w] = result.entry]
                     /\ pc' = [pc EXCEPT ![w] = "al_logs"]
                     /\ fidx' = fidx
              [] result.kind = "absent" -> UNCHANGED <<pc, cur, fidx>>
              [] result.kind = "raise" ->
                     /\ pc' = [pc EXCEPT ![w] = "done"]
                     /\ UNCHANGED <<cur, fidx>>

\* follow_docker_logs: one iteration of `for line in process.stdout`
ReadLine(w, line, now) ==
    /\ Alive
    /\ pc[w] = "read"
    /\ nread[w] < MaxStream
    /\ Len(calls) + Cardinality({v \in Threads : pc[v] = "al_logs"}) < MaxIngest
    /\ nread' = [nread EXCEPT ![w] = nread[w] + 1]
    /\ IF ~running
       THEN /\ pc' = [pc EXCEPT ![w] = "done"]
            /\ observed' = observed \cup {w}
            /\ UNCHANGED <<cur, fidx>>
       ELSE /\ HandleLine(w, line, now)
            /\ observed' = observed
    /\ UNCHANGED <<dashVars, viewVars, calls, config, tmp, procVars,
                   mainVars, parseVars, file_lines, file_mode, file_positions,
                   unavail>>

\* the container stops: `docker logs -f` exits by itself
ProcessExits(w) ==
    /\ Alive
    /\ proc[w] = "running"
    /\ proc' = [proc EXCEPT ![w] = "exited"]
    /\ UNCHANGED <<dashVars, viewVars, calls, config, threadVars,
                   docker_processes, mainVars, parseVars, srcVars>>

\* follow_docker_logs: process.stdout is at its end, the loop is left
StreamEnd(w) ==
    /\ Alive
    /\ pc[w] = "read"
    /\ proc[w] # "running"
    /\ pc' = [pc EXCEPT ![w] = "done"]
    /\ UNCHANGED <<dashVars, viewVars, calls, config, cur, tmp, fidx, observed,
                   procVars, mainVars, parseVars, srcVars>>

\* a loop that ends when tail_file returns
AfterTailStops ==
    /\ fidx' = 0
    /\ pc' = [pc EXCEPT ![FileThread] = "done"]

\* the loop of monitor_files_loop after tail_file has returned: the next
\* log file, or time.sleep(0.5) after the last one
AfterTail ==
    IF fidx < Len(config.files)
    THEN /\ fidx' = fidx + 1
         /\ pc' = [pc EXCEPT ![FileThread] = "tail"]
    ELSE /\ fidx' = 0
         /\ pc' = [pc EXCEPT ![FileThread] = "sleep"]

\* monitor_files_loop: `while self.running`, then the first log file
FileCheck ==
    /\ Alive
    /\ pc[FileThread] = "check"
    /\ IF running
       THEN /\ pc' = [pc EXCEPT ![FileThread] =
                         IF config.files = <<>> THEN "sleep" ELSE "tail"]
            /\ fidx' = IF config.files = <<>> THEN 0 ELSE 1
            /\ observed' = observed
       ELSE /\ pc' = [pc EXCEPT ![FileThread] = "done"]
            /\ observed' = observed \cup {FileThread}
            /\ fidx' = fidx
    /\ UNCHANGED <<dashVars, viewVars, calls, config, cur, tmp, procVars,
                   mainVars, parseVars, srcVars>>

\* an initial position at the beginning of the file, whatever its size
StartOffsetZero(exists, size) == 0

\* tail_file: path.stat().st_size if path.exists() else 0
StartOffset(exists, size) == IF exists THEN size ELSE 0

\* tail_file, up to the first readline: the first call for a file remembers
\* its size, or 0 when it does not exist; then the file is opened and the
\* remembered position is sought.  stat_ok says whether the stat of a file
\* that cannot be read succeeds (the file's own mode forbids reading) or
\* raises PermissionError (its directory cannot be searched).
TailOpen(stat_ok) ==
    /\ Alive
    /\ pc[FileThread] = "tail"
    /\ LET s == SourceOf(FileThread)
           known == s \in DOMAIN file_positions
           positions ==
               IF known THEN file_positions
               ELSE CASE file_mode[s] = "ok" ->
                             DictSet(file_positions, s,
                                     StartOffset(TRUE, Len(file_lines[s])))
                      [] file_mode[s] = "missing" ->
                             DictSet(file_positions, s, StartOffset(FALSE, 0))
                      [] file_mode[s] = "denied" ->
                             IF stat_ok
                             THEN DictSet(file_positions, s,
                                          StartOffset(TRUE, Len(file_lines[s])))
                             ELSE file_positions
       IN /\ file_positions' = positions
          /\ IF file_mode[s] = "ok"
             THEN /\ nread' = [nread EXCEPT ![FileThread] = positions[s]]
                  /\ pc' = [pc EXCEPT ![FileThread] = "readline"]
                  /\ UNCHANGED <<fidx, unavail>>
             ELSE \* FileNotFoundError or PermissionError: tail_file returns
                  /\ nread' = nread
                  /\ unavail' = unavail \cup {s}
                  /\ AfterTail
    /\ UNCHANGED <<dashVars, viewVars, calls, config, cur, tmp, observed,
                   procVars, mainVars, parseVars, file_lines, file_mode>>

\* a readline that returns the last line of the file
LineAtEnd(lines, offset) == lines[Len(lines)]

\* the piece of the file that starts at an offset before its end
LineAt(lines, offset) == lines[offset + 1]

\* f.readline() at an offset before the end of the file: the text up to
\* and including the next newline, or up to the end of the file when the
\* last line has no newline yet, and the offset after it.  A line written
\* in two pieces is read whole from its beginning when both pieces are
\* there, and piece by piece otherwise.
ReadAt(lines, offset) ==
    LET piece == LineAt(lines, offset)
    IN CASE piece.part = "whole" -> [line |-> piece, next |-> offset + 1]
         [] piece.part = "head" /\ offset + 2 <= Len(lines) ->
                [line |-> [piece EXCEPT !.part = "whole"], next |-> offset + 2]
         [] piece.part = "head" /\ offset + 2 > Len(lines) ->
                [line |-> Fragment(piece), next |-> offset + 1]
         [] piece.part = "tail" ->
                [line |-> Fragment(piece), next |-> offset + 1]

\* the body of tail_file's read loop for a line, up to the call of add_log.
\* A parser that raises ends tail_file through `except Exception`, before
\* the position is updated.
HandleFileLine(line, now) ==
    IF IsBlank(line) \/ SourceOf(FileThread) \notin DOMAIN MonitorParsers
    THEN UNCHANGED <<pc, cur, fidx>>
    ELSE LET result == Parse(MonitorParsers[SourceOf(FileThread)], line, now)
         IN CASE result.kind = "entry" ->
                     /\ cur' = [cur EXCEPT ![FileThread] = result.entry]
                     /\ pc' = [pc EXCEPT ![FileThread] = "al_logs"]
                     /\ fidx' = fidx
              [] result.kind = "absent" -> UNCHANGED <<pc, cur, fidx>>
              [] result.kind = "raise" -> cur' = cur /\ AfterTail

\* tail_file: `while line := f.readline()` reads the next line of the file
FileReadLine(now) ==
    /\ Alive
    /\ pc[FileThread] = "readline"
    /\ nread[FileThread] < Len(file_lines[SourceOf(FileThread)])
    /\ Len(calls) + Cardinality({v \in Threads : pc[v] = "al_logs"}) < MaxIngest
    /\ LET read == ReadAt(file_lines[SourceOf(FileThread)], nread[FileThread])
       IN /\ nread' = [nread EXCEPT ![FileThread] = read.next]
          /\ HandleFileLine(read.line, now)
    /\ UNCHANGED <<dashVars, viewVars, calls, config, tmp, observed, procVars,
                   mainVars, parseVars, file_lines, file_mode, file_positions,
                   unavail>>

\* tail_file: readline returns '' at the end of the file;
\* self.file_positions[file_path] = f.tell(), and tail_file returns
FileEof ==
    /\ Alive
    /\ pc[FileThread] = "readline"
    /\ nread[FileThread] >= Len(file_lines[SourceOf(FileThread)])
    /\ file_positions' = DictSet(file_positions, SourceOf(FileThread),
                                 nread[FileThread])
    /\ AfterTail
    /\ UNCHANGED <<dashVars, viewVars, calls, config, cur, tmp, observed,
                   procVars, mainVars, parseVars, file_lines, file_mode, nread,
                   unavail>>

\* monitor_files_loop: time.sleep(0.5) returns
FileSleep ==
    /\ Alive
    /\ pc[FileThread] = "sleep"
    /\ pc' = [pc EXCEPT ![FileThread] = "check"]
    /\ fidx' = 0
    /\ UNCHANGED <<dashVars, viewVars, calls, config, cur, tmp, observed,
                   procVars, mainVars, parseVars, srcVars>>

\* the last line of the file has no newline yet
EndsInPartialLine(lines) == lines # <<>> /\ lines[Len(lines)].part = "head"

\* another process appends a line to a log file
FileAppend(s, line) ==
    /\ Alive
    /\ file_mode[s] # "missing"
    /\ Len(file_lines[s]) < MaxFileLen
    /\ ~EndsInPartialLine(file_lines[s])
    /\ file_lines' = [file_lines EXCEPT ![s] = Append(file_lines[s], line)]
    /\ UNCHANGED <<dashVars, viewVars, calls, config, threadVars, procVars,
                   mainVars, parseVars, file_mode, file_positions, nread,
                   unavail>>

\* another process writes the beginning of a line to a log file, without
\* the rest and the newline
FileAppendHead(s, line) ==
    /\ Alive
    /\ file_mode[s] # "missing"
    /\ Len(file_lines[s]) + 2 <= MaxFileLen
    /\ ~EndsInPartialLine(file_lines[s])
    /\ file_lines' = [file_lines EXCEPT
                          ![s] = Append(file_lines[s],
                                        [line EXCEPT !.part = "head"])]
    /\ UNCHANGED <<dashVars, viewVars, calls, config, threadVars, procVars,
                   mainVars, parseVars, file_mode, file_positions, nread,
                   unavail>>

\* the process writes the rest of the line and its newline
FileAppendTail(s) ==
    /\ Alive
    /\ EndsInPartialLine(file_lines[s])
    /\ file_lines' = [file_lines EXCEPT
                          ![s] = Append(file_lines[s],
                                        [file_lines[s][Len(file_lines[s])]
                                             EXCEPT !.part = "tail"])]
    /\ UNCHANGED <<dashVars, viewVars, calls, config, threadVars, procVars,
                   mainVars, parseVars, file_mode, file_positions, nread,
                   unavail>>

\* a log file is truncated, or replaced by an empty one (log rotation)
FileTruncate(s) ==
    /\ Alive
    /\ file_lines[s] # <<>>
    /\ file_lines' = [file_lines EXCEPT ![s] = <<>>]
    /\ UNCHANGED <<dashVars, viewVars, calls, config, threadVars, procVars,
                   mainVars, parseVars, file_mode, file_positions, nread,
                   unavail>>

\* a log file that did not exist is created, empty
FileAppears(s) ==
    /\ Alive
    /\ file_mode[s] = "missing"
    /\ file_mode' = [file_mode EXCEPT ![s] = "ok"]
    /\ UNCHANGED <<dashVars, viewVars, calls, config, threadVars, procVars,
                   mainVars, parseVars, file_lines, file_positions, nread,
                   unavail>>

\* the permissions of a log file change: it becomes unreadable, or readable
FileChmod(s) ==
    /\ Alive
    /\ file_mode[s] # "missing"
    /\ file_mode' = [file_mode EXCEPT ![s] = IF file_mode[s] = "ok"
                                             THEN "denied" ELSE "ok"]
    /\ UNCHANGED <<dashVars, viewVars, calls, config, threadVars, procVars,
                   mainVars, parseVars, file_lines, file_positions, nread,
                   unavail>>

\* add_log: self.logs.append(entry)
AddLogLogs(w) ==
    /\ Alive
    /\ pc[w] = "al_logs"
    /\ logs' = LogsAppend(logs, cur[w])
    /\ calls' = Append(calls, [entry |-> cur[w], worker |-> SourceOf(w),
                                thread |-> w, lineno |-> nread[w]])
    /\ pc' = [pc EXCEPT ![w] = "al_errors"]
    /\ UNCHANGED <<max_errors, max_logs, errors, request_stats,
                   service_status, ai_stats, viewVars, config, cur, tmp, fidx,
                   observed, procVars, mainVars, parseVars, srcVars>>

\* add_log: if entry.level in ("ERROR", "CRITICAL"): self.errors.append(entry)
AddLogErrors(w) ==
    /\ Alive
    /\ pc[w] = "al_errors"
    /\ errors' = ErrorsAppend(errors, cur[w])
    /\ pc' = [pc EXCEPT ![w] = "al_status"]
    /\ UNCHANGED <<max_errors, max_logs, logs, request_stats, service_status,
                   ai_stats, viewVars, calls, config, cur, tmp, fidx, observed,
                   procVars, mainVars, parseVars, srcVars>>

\* add_log: self.service_status[entry.service] = "healthy", and the test of
\* `if entry.extra and "path" in entry.extra`
AddLogStatus(w) ==
    /\ Alive
    /\ pc[w] = "al_status"
    /\ service_status' = StatusUpdate(service_status, cur[w])
    /\ pc' = [pc EXCEPT ![w] = IF HasPath(cur[w]) THEN "al_get"
                               ELSE AfterAddLog(w)]
    /\ cur' = [cur EXCEPT ![w] = IF HasPath(cur[w]) THEN cur[w] ELSE NoEntry]
    /\ UNCHANGED <<max_errors, max_logs, logs, errors, request_stats,
                   ai_stats, viewVars, calls, config, tmp, fidx, observed,
                   procVars, mainVars, parseVars, srcVars>>

\* add_log: `self.request_stats[path] += 1` reads the counter ...
AddLogGet(w) ==
    /\ Alive
    /\ pc[w] = "al_get"
    /\ tmp' = [tmp EXCEPT ![w] = CounterGet(request_stats, cur[w].extra["path"])]
    /\ pc' = [pc EXCEPT ![w] = "al_set"]
    /\ UNCHANGED <<dashVars, viewVars, calls, config, cur, fidx, observed,
                   procVars, mainVars, parseVars, srcVars>>

\* ... and then stores the value read plus one
AddLogSet(w) ==
    /\ Alive
    /\ pc[w] = "al_set"
    /\ request_stats' = CounterSet(request_stats, cur[w].extra["path"], tmp[w] + 1)
    /\ pc' = [pc EXCEPT ![w] = AfterAddLog(w)]
    /\ cur' = [cur EXCEPT ![w] = NoEntry]
    /\ tmp' = [tmp EXCEPT ![w] = 0]
    /\ UNCHANGED <<max_errors, max_logs, logs, errors, service_status,
                   ai_stats, viewVars, calls, config, fidx, observed,
                   procVars, mainVars, parseVars, srcVars>>

\* render: layout = Layout(), layout["status"].update(self.render_status())
RenderStatusStep ==
    /\ mpc = "render_status"
    /\ view' = [NoView EXCEPT !.status = RenderStatus(service_status)]
    /\ mpc' = "render_ai"
    /\ UNCHANGED <<dashVars, passes, mc, fetch_hist, calls, config, threadVars, procVars,
                   running, fin, cidx, exit_status, signals, parseVars, srcVars>>

\* render: layout["ai_progress"].update(self.render_ai_progress())
RenderAiStep(outcome) ==
    /\ mpc = "render_ai"
    /\ ai_stats' = FetchResult(ai_stats, outcome)
    /\ fetch_hist' = Fetched(fetch_hist, ai_stats, outcome)
    /\ view' = [view EXCEPT !.ai = RenderAiProgress(ai_stats')]
    /\ mpc' = "render_requests"
    /\ UNCHANGED <<max_errors, max_logs, logs, errors, request_stats,
                   service_status, passes, mc, calls, config, threadVars,
                   procVars, running, fin, cidx, exit_status, signals,
                   parseVars, srcVars>>

\* render: layout["requests"].update(self.render_requests()).  With at
\* most TopK paths most_common sorts the items in one call; with more it
\* iterates over request_stats.items() in Python code, between whose steps
\* the workers run.
RenderRequestsStep ==
    /\ mpc = "render_requests"
    /\ IF Len(request_stats) <= TopK
       THEN /\ view' = [view EXCEPT !.requests = RenderRequests(request_stats)]
            /\ mpc' = "render_errors"
            /\ mc' = mc
       ELSE /\ mc' = [active |-> TRUE, used |-> Len(request_stats), idx |-> 0,
                      items |-> <<>>, total |-> SumCounts(request_stats)]
            /\ mpc' = "most_common"
            /\ view' = view
    /\ UNCHANGED <<dashVars, passes, fetch_hist, calls, config, threadVars, procVars,
                   running, fin, cidx, exit_status, signals, parseVars, srcVars>>

\* render: layout["errors"].update(self.render_errors())
RenderErrorsStep ==
    /\ mpc = "render_errors"
    /\ view' = [view EXCEPT !.errors = RenderErrors(errors)]
    /\ mpc' = "render_logs"
    /\ UNCHANGED <<dashVars, passes, mc, fetch_hist, calls, config, threadVars, procVars,
                   running, fin, cidx, exit_status, signals, parseVars, srcVars>>

\* render: layout["logs"].update(self.render_logs()); the pass is complete
RenderLogsStep ==
    /\ mpc = "render_logs"
    /\ view' = [view EXCEPT !.logs = RenderLogs(logs), !.logs_at = Len(calls),
                            !.rendered = TRUE]
    /\ mpc' = "sleep"
    /\ passes' = passes + 1
    /\ UNCHANGED <<dashVars, mc, fetch_hist, calls, config, threadVars, procVars,
                   running, fin, cidx, exit_status, signals, parseVars, srcVars>>

\* most_common: one next() of the iterator over request_stats.items().  It
\* raises RuntimeError when the dict has changed size since the iterator was
\* made; nothing in render or run catches it, so the finally block of run
\* calls cleanup and the exception ends the program.  Otherwise it yields
\* the next item, or ends the iteration, and the panel is made of the items
\* yielded.
MostCommonNext ==
    /\ mpc = "most_common"
    /\ IF Len(request_stats) # mc.used
       THEN /\ mc' = NoIterator
            /\ mpc' = "c_cleanup"
            /\ fin' = TRUE
            /\ running' = FALSE
            /\ cidx' = 0
            /\ view' = view
       ELSE /\ UNCHANGED <<fin, running, cidx>>
            /\ IF mc.idx < mc.used
               THEN /\ mc' = [mc EXCEPT !.idx = mc.idx + 1,
                                        !.items = Append(mc.items,
                                                      request_stats[mc.idx + 1])]
                    /\ UNCHANGED <<mpc, view>>
               ELSE /\ view' = [view EXCEPT !.requests =
                                   [empty |-> FALSE, total |-> mc.total,
                                    top |-> MostCommon(mc.items, TopK)]]
                    /\ mc' = NoIterator
                    /\ mpc' = "render_errors"
    /\ UNCHANGED <<dashVars, passes, fetch_hist, calls, config, threadVars,
                   procVars, exit_status, signals, parseVars, srcVars>>

\* run: time.sleep(1), then `while self.running` starts the next pass
NextPass ==
    /\ mpc = "sleep"
    /\ running
    /\ passes < MaxPasses
    /\ mpc' = "render_status"
    /\ UNCHANGED <<dashVars, viewVars, calls, config, threadVars, procVars,
                   running, fin, cidx, exit_status, signals, parseVars, srcVars>>

\* a follow_docker_logs thread, with docker installed and the container up
DockerWorker(w) ==
    \/ Popen(w)
    \/ Register(w)
    \/ \E line \in SourceLines(w), now \in NowValues : ReadLine(w, line, now)

\* the monitor_files_loop thread
FileWorker ==
    \/ FileCheck
    \/ \E stat_ok \in BOOLEAN : TailOpen(stat_ok)
    \/ \E now \in NowValues : FileReadLine(now)
    \/ FileEof
    \/ FileSleep

\* the processes that write the log files
FileWriters ==
    \E s \in Range(config.files) : \E line \in SourceLines(s) :
        FileAppend(s, line)

\* Dashboard.add_log, called by worker w
AddLogSteps(w) ==
    \/ AddLogLogs(w)
    \/ AddLogErrors(w)
    \/ AddLogStatus(w)
    \/ AddLogGet(w)
    \/ AddLogSet(w)

RenderLoop ==
    \/ RenderStatusStep
    \/ \E outcome \in MonitorFetchOutcomes : RenderAiStep(outcome)
    \/ RenderRequestsStep
    \/ RenderErrorsStep
    \/ RenderLogsStep
    \/ NextPass

\* the monitor running: the ingestion workers and the render loop
Next ==
    \/ StartDockerMonitoring
    \/ StartFileMonitor
    \/ InstallHandlers
    \/ \E w \in config.docker : DockerWorker(w)
    \/ FileWorker
    \/ FileWriters
    \/ \E w \in Threads : AddLogSteps(w)
    \/ RenderLoop

Spec == Init /\ [][Next]_vars

-----------------------------------------------------------------------------
(* The Dashboard used by one thread: add_log and render run to completion. *)
(* SpecDash is the specification of the claims about the aggregator as a   *)
(* sequential object.                                                      *)

\* the entries handed to add_log in SpecDash
DashEntries ==
    {LogEntry(3, "celery", "INFO", "task ok", EmptyDict),
     LogEntry(1, "celery", "ERROR", "task failed", EmptyDict),
     LogEntry(2, "nginx", "CRITICAL", "upstream down", None),
     LogEntry(2, "api", "INFO", "GET /a -> 200",
              [method |-> "GET", path |-> "/a", status |-> 200]),
     LogEntry(1, "api", "ERROR", "GET /b -> 500",
              [method |-> "GET", path |-> "/b", status |-> 500]),
     LogEntry(3, "crawler", "WARNING", "Discovered 1 new links from a.io...",
              [total_links |-> 2, new_links |-> 1, duplicate_links |-> 1,
               source_url |-> "a.io"])}

\* Dashboard.__init__ with the configured max_errors and max_logs
InitDash ==
    /\ \E maxErrors \in 0..MaxCap, maxLogs \in 0..MaxCap :
           InitDashboard(maxErrors, maxLogs)
    /\ InitMonitor(MonitorConfig)
    /\ InitNoParse

\* add_log(entry), the whole call
AddLog(entry) ==
    /\ Len(calls) < MaxCalls
    /\ logs' = LogsAppend(logs, entry)
    /\ errors' = ErrorsAppend(errors, entry)
    /\ service_status' = StatusUpdate(service_status, entry)
    /\ request_stats' = StatsUpdate(request_stats, entry)
    /\ calls' = Append(calls, [entry |-> entry, worker |-> "direct",
                                thread |-> "direct", lineno |-> 0])
    /\ UNCHANGED <<max_errors, max_logs, ai_stats, viewVars, monVars,
                   parseVars>>

\* render(), the whole pass; render_ai_progress fetches the statistics first
Render(outcome) ==
    /\ ai_stats' = FetchResult(ai_stats, outcome)
    /\ fetch_hist' = Fetched(fetch_hist, ai_stats, outcome)
    /\ view' = [rendered |-> TRUE,
                status |-> RenderStatus(service_status),
                ai |-> RenderAiProgress(ai_stats'),
                requests |-> RenderRequests(request_stats),
                errors |-> RenderErrors(errors),
                logs |-> RenderLogs(logs),
                logs_at |-> Len(calls)]
    /\ UNCHANGED <<max_errors, max_logs, logs, errors, request_stats,
                   service_status, passes, mc, calls, monVars, parseVars>>

\* the answers of the coordinator in SpecDash
DashFetchOutcomes ==
    {Response(200, TRUE, EmptyDict),
     Response(200, TRUE, [pending_pages |-> 1, processing_pages |-> 0,
                          evaluated_pages |-> 1, failed_pages |-> 0,
                          workers_active |-> 1]),
     RequestRaised("ConnectionError")}

NextDash ==
    \/ \E entry \in DashEntries : AddLog(entry)
    \/ \E outcome \in DashFetchOutcomes : Render(outcome)

SpecDash == InitDash /\ [][NextDash]_vars

-----------------------------------------------------------------------------
(* The statistics fetch.  SpecFetch is the Dashboard of the monitor, used   *)
(* by one thread, with every answer fetch_ai_stats can get.                *)

InitFetch ==
    /\ InitDashboard(DefaultMaxErrors, DefaultMaxLogs)
    /\ InitMonitor(MonitorConfig)
    /\ InitNoParse

NextFetch ==
    \/ \E entry \in DashEntries : AddLog(entry)
    \/ \E outcome \in FetchOutcomes : Render(outcome)

SpecFetch == InitFetch /\ [][NextFetch]_vars

-----------------------------------------------------------------------------
(* Shutdown (run, signal_handler, cleanup).  SpecShutdown is the            *)
(* specification of the claims about signals and child processes: the      *)
(* workers run, a signal may arrive at any point of the main thread, and   *)
(* the render steps, which touch none of the shutdown state, are left out. *)

\* the main thread is inside the try block of run
TryPcs == {"render_status", "render_ai", "render_requests", "render_errors",
           "render_logs", "sleep"}

\* the main thread is inside cleanup
CleanupPcs == {"h_cleanup", "f_cleanup", "c_cleanup"}

\* SIGINT or SIGTERM arrives before run has installed signal_handler: the
\* default disposition ends the process (KeyboardInterrupt outside the try
\* block, or termination by SIGTERM); cleanup does not run
DefaultSignal ==
    /\ mpc \in {"run", "start_files", "install"}
    /\ signals < MaxSignals
    /\ signals' = signals + 1
    /\ mpc' = "exited"
    /\ exit_status' = "signal"
    /\ UNCHANGED <<dashVars, viewVars, calls, config, threadVars, procVars,
                   running, fin, cidx, parseVars, srcVars>>

\* SIGINT or SIGTERM arrives after: signal_handler runs in the main thread,
\* on top of whatever it was doing, and calls cleanup, which starts with
\* self.running = False
HandleSignal ==
    /\ mpc \in TryPcs \cup CleanupPcs
    /\ signals < MaxSignals
    /\ signals' = signals + 1
    /\ running' = FALSE
    /\ cidx' = 0
    /\ mpc' = "h_cleanup"
    /\ UNCHANGED <<dashVars, viewVars, calls, config, threadVars, procVars,
                   fin, exit_status, parseVars, srcVars>>

\* cleanup: one iteration of `for process in self.docker_processes`:
\* terminate, wait, kill on timeout
CleanupTerminate ==
    /\ mpc \in CleanupPcs
    /\ cidx < Len(docker_processes)
    /\ LET w == docker_processes[cidx + 1]
       IN proc' = [proc EXCEPT ![w] = IF proc[w] = "running" THEN "terminated"
                                      ELSE proc[w]]
    /\ cidx' = cidx + 1
    /\ UNCHANGED <<dashVars, viewVars, calls, config, threadVars,
                   docker_processes, mpc, running, fin, exit_status, signals,
                   parseVars, srcVars>>

\* signal_handler: cleanup has returned, sys.exit(0).  SystemExit unwinds
\* the main thread: through the finally block of run, which calls cleanup
\* again, or, raised inside that block, out of the program
HandlerExit ==
    /\ mpc = "h_cleanup"
    /\ cidx >= Len(docker_processes)
    /\ IF fin
       THEN /\ mpc' = "exited"
            /\ exit_status' = "0"
            /\ UNCHANGED <<running, fin, cidx>>
       ELSE /\ mpc' = "f_cleanup"
            /\ fin' = TRUE
            /\ running' = FALSE
            /\ cidx' = 0
            /\ exit_status' = exit_status
    /\ UNCHANGED <<dashVars, viewVars, calls, config, threadVars, procVars,
                   signals, parseVars, srcVars>>

\* run: the cleanup of the finally block has returned; SystemExit(0) ends
\* the process and with it the daemon threads
FinallyExit ==
    /\ mpc = "f_cleanup"
    /\ cidx >= Len(docker_processes)
    /\ mpc' = "exited"
    /\ exit_status' = "0"
    /\ UNCHANGED <<dashVars, viewVars, calls, config, threadVars, procVars,
                   running, fin, cidx, signals, parseVars, srcVars>>

\* run: the cleanup of the finally block has returned while an exception
\* raised by render is unwinding the main thread: the program ends with a
\* traceback
CrashExit ==
    /\ mpc = "c_cleanup"
    /\ cidx >= Len(docker_processes)
    /\ mpc' = "exited"
    /\ exit_status' = "1"
    /\ UNCHANGED <<dashVars, viewVars, calls, config, threadVars, procVars,
                   running, fin, cidx, signals, parseVars, srcVars>>

NextShutdown ==
    \/ StartDockerMonitoring
    \/ StartFileMonitor
    \/ InstallHandlers
    \/ \E w \in config.docker : DockerWorker(w)
    \/ \E w \in config.docker : PopenFails(w)
    \/ \E w \in config.docker : ProcessExits(w)
    \/ \E w \in config.docker : StreamEnd(w)
    \/ FileWorker
    \/ FileWriters
    \/ \E w \in Threads : AddLogSteps(w)
    \/ DefaultSignal
    \/ HandleSignal
    \/ CleanupTerminate
    \/ HandlerExit
    \/ FinallyExit

SpecShutdown == Init /\ [][NextShutdown]_vars

-----------------------------------------------------------------------------
(* Ingestion alone.  SpecIngest runs a live-stream worker whose parser can *)
(* raise next to the file worker, with a container that may fail to start  *)
(* and a log file that may be missing or unreadable; SpecStream runs the   *)
(* same workers with a stream that can end and a monitor that can be       *)
(* stopped; SpecFiles runs the file worker over two log files, SpecTail    *)
(* over one that is written in pieces and truncated.  The render steps are *)
(* left out of SpecIngest, SpecFiles and SpecTail.                         *)

IngestConfig == [docker |-> {"ai_evaluator"}, files |-> <<"nginx_access">>]

FilesConfig == [docker |-> {}, files |-> <<"nginx_access", "nginx_error">>]

\* the states a log file can be in when the monitor starts
FileModes == {"ok", "missing", "denied"}

InitIngest ==
    /\ InitDashboard(DefaultMaxErrors, DefaultMaxLogs)
    /\ \E modes \in [Range(IngestConfig.files) -> FileModes] :
           /\ config = IngestConfig
           /\ running = TRUE
           /\ docker_processes = <<>>
           /\ proc = [w \in IngestConfig.docker |-> "none"]
           /\ pc = [w \in IngestConfig.docker \cup {FileThread} |-> "off"]
           /\ cur = [w \in IngestConfig.docker \cup {FileThread} |-> NoEntry]
           /\ tmp = [w \in IngestConfig.docker \cup {FileThread} |-> 0]
           /\ fidx = 0
           /\ observed = {}
           /\ file_lines = [s \in Range(IngestConfig.files) |-> <<>>]
           /\ file_mode = modes
           /\ file_positions = EmptyDict
           /\ nread = [w \in IngestConfig.docker \cup {FileThread} |-> 0]
           /\ unavail = {}
           /\ mpc = "run"
           /\ fin = FALSE
           /\ cidx = 0
           /\ exit_status = "none"
           /\ signals = 0
    /\ InitNoParse

\* the environment of the log files
FileEnvironment ==
    \/ FileWriters
    \/ \E s \in Range(config.files) : FileAppears(s)
    \/ \E s \in Range(config.files) : FileChmod(s)

NextIngest ==
    \/ StartDockerMonitoring
    \/ StartFileMonitor
    \/ InstallHandlers
    \/ \E w \in config.docker : DockerWorker(w)
    \/ \E w \in config.docker : PopenFails(w)
    \/ FileWorker
    \/ FileEnvironment
    \/ \E w \in Threads : AddLogSteps(w)

SpecIngest == InitIngest /\ [][NextIngest]_vars

\* SpecStream runs the workers of IngestConfig up to the shutdown of the
\* monitor: the stream can end, and a signal can stop the monitor.
InitStream ==
    /\ InitDashboard(DefaultMaxErrors, DefaultMaxLogs)
    /\ InitMonitor(IngestConfig)
    /\ InitNoParse

SpecStream == InitStream /\ [][NextShutdown]_vars

\* SpecTail runs the file worker over a log file whose parser can raise;
\* the file is empty, holds a line or does not exist when the monitor
\* starts, its lines are written whole or in two pieces, and it can be
\* truncated.
TailConfig == [docker |-> {}, files |-> <<"ai_evaluator">>]

\* a line written before the monitor starts
OldLine == GinLine(12, 23, 200, "GET", "/old")

InitTail ==
    /\ InitDashboard(DefaultMaxErrors, DefaultMaxLogs)
    /\ \E start \in {[lines |-> <<>>, mode |-> "ok"],
                      [lines |-> <<OldLine>>, mode |-> "ok"],
                      [lines |-> <<>>, mode |-> "missing"]} :
           /\ config = TailConfig
           /\ running = TRUE
           /\ docker_processes = <<>>
           /\ proc = [w \in TailConfig.docker |-> "none"]
           /\ pc = [w \in TailConfig.docker \cup {FileThread} |-> "off"]
           /\ cur = [w \in TailConfig.docker \cup {FileThread} |-> NoEntry]
           /\ tmp = [w \in TailConfig.docker \cup {FileThread} |-> 0]
           /\ fidx = 0
           /\ observed = {}
           /\ file_lines = [ai_evaluator |-> start.lines]
           /\ file_mode = [ai_evaluator |-> start.mode]
           /\ file_positions = EmptyDict
           /\ nread = [w \in TailConfig.docker \cup {FileThread} |-> 0]
           /\ unavail = {}
           /\ mpc = "run"
           /\ fin = FALSE
           /\ cidx = 0
           /\ exit_status = "none"
           /\ signals = 0
    /\ InitNoParse

\* the writers of the log files of SpecTail
TailWriters ==
    \/ FileWriters
    \/ \E s \in Range(config.files) : \E line \in SourceLines(s) :
           FileAppendHead(s, line)
    \/ \E s \in Range(config.files) : FileAppendTail(s)
    \/ \E s \in Range(config.files) : FileTruncate(s)
    \/ \E s \in Range(config.files) : FileAppears(s)

NextTail ==
    \/ StartDockerMonitoring
    \/ StartFileMonitor
    \/ InstallHandlers
    \/ FileWorker
    \/ TailWriters
    \/ AddLogSteps(FileThread)

SpecTail == InitTail /\ [][NextTail]_vars

\* SpecStart runs the program from main(): the configuration file exists
\* and parses, exists and does not parse, or is missing.  config holds the
\* content of the file next to its state (field file).
StartConfigs ==
    {[docker |-> MonitorConfig.docker, files |-> MonitorConfig.files,
      file |-> f] : f \in {"ok", "unparseable", "missing"}}

InitStart ==
    /\ InitDashboard(DefaultMaxErrors, DefaultMaxLogs)
    /\ \E c \in StartConfigs :
           /\ config = c
           /\ running = TRUE
           /\ docker_processes = <<>>
           /\ proc = [w \in c.docker |-> "none"]
           /\ pc = [w \in c.docker \cup {FileThread} |-> "off"]
           /\ cur = [w \in c.docker \cup {FileThread} |-> NoEntry]
           /\ tmp = [w \in c.docker \cup {FileThread} |-> 0]
           /\ fidx = 0
           /\ observed = {}
           /\ file_lines = [s \in Range(c.files) |-> <<>>]
           /\ file_mode = [s \in Range(c.files) |-> "ok"]
           /\ file_positions = EmptyDict
           /\ nread = [w \in c.docker \cup {FileThread} |-> 0]
           /\ unavail = {}
           /\ mpc = "main"
           /\ fin = FALSE
           /\ cidx = 0
           /\ exit_status = "none"
           /\ signals = 0
    /\ InitNoParse

\* main: Path(config_path).exists()
ConfigExists(file) == file # "missing"

\* a load that returns a configuration whatever the file holds
ConfigLoadsAlways(file) == TRUE

\* LogMonitor.__init__: open(config_path) and yaml.safe_load(f) return
ConfigLoads(file) == file = "ok"

\* main: without the configuration file, usage is printed and sys.exit(1)
MainCheck ==
    /\ mpc = "main"
    /\ IF ConfigExists(config.file)
       THEN mpc' = "init" /\ exit_status' = exit_status
       ELSE mpc' = "exited" /\ exit_status' = "1"
    /\ UNCHANGED <<dashVars, viewVars, calls, config, threadVars, procVars,
                   running, fin, cidx, signals, parseVars, srcVars>>

\* main: LogMonitor(config_path); an exception of open or yaml.safe_load is
\* caught nowhere: traceback, exit status 1
LoadConfig ==
    /\ mpc = "init"
    /\ IF ConfigLoads(config.file)
       THEN mpc' = "run" /\ exit_status' = exit_status
       ELSE mpc' = "exited" /\ exit_status' = "1"
    /\ UNCHANGED <<dashVars, viewVars, calls, config, threadVars, procVars,
                   running, fin, cidx, signals, parseVars, srcVars>>

NextStart ==
    \/ MainCheck
    \/ LoadConfig
    \/ StartDockerMonitoring
    \/ StartFileMonitor
    \/ InstallHandlers
    \/ \E w \in config.docker : DockerWorker(w)
    \/ \E w \in config.docker : PopenFails(w)
    \/ FileWorker
    \/ FileWriters
    \/ \E w \in Threads : AddLogSteps(w)

SpecStart == InitStart /\ [][NextStart]_vars

\* SpecDrop runs the file worker over a log file with lines its parser
\* does not match and over the log file of a service that has no parser.
DropConfig == [docker |-> {}, files |-> <<"coordinator", "redis">>]

InitDrop ==
    /\ InitDashboard(DefaultMaxErrors, DefaultMaxLogs)
    /\ InitMonitor(DropConfig)
    /\ InitNoParse

InitFiles ==
    /\ InitDashboard(DefaultMaxErrors, DefaultMaxLogs)
    /\ InitMonitor(FilesConfig)
    /\ InitNoParse

NextFiles ==
    \/ StartDockerMonitoring
    \/ StartFileMonitor
    \/ InstallHandlers
    \/ FileWorker
    \/ FileWriters
    \/ AddLogSteps(FileThread)

SpecFiles == InitFiles /\ [][NextFiles]_vars

SpecDrop == InitDrop /\ [][NextFiles]_vars

-----------------------------------------------------------------------------
(* The render loop next to a worker that records new request paths.        *)
(* SpecRender starts the monitor in the state it is in once the search_api *)
(* worker has recorded requests for TopK + 1 different paths and the main  *)
(* thread is about to render; calls, nread and passes count from there.    *)

RenderConfig == [docker |-> {"search_api"}, files |-> <<>>]

\* the entries recorded before: one request for each of TopK + 1 paths
PriorEntries ==
    [i \in 1..(TopK + 1) |->
        UvicornParse(UvicornLine("INFO", "GET", "/p" \o ToString(i), 200),
                     5).entry]

\* the collections of a Dashboard with capacities maxErrors and maxLogs
\* after add_log has been called with each entry of a sequence in turn
RECURSIVE Recorded(_, _, _)
Recorded(entries, maxErrors, maxLogs) ==
    IF entries = <<>>
    THEN [logs |-> <<>>, errors |-> <<>>, status |-> EmptyDict, stats |-> <<>>]
    ELSE LET d == Recorded(SubSeq(entries, 1, Len(entries) - 1),
                           maxErrors, maxLogs)
             entry == entries[Len(entries)]
         IN [logs |-> DequeAppend(d.logs, entry, maxLogs),
             errors |-> IF IsErrorLevel(entry)
                        THEN DequeAppend(d.errors, entry, maxErrors)
                        ELSE d.errors,
             status |-> DictSet(d.status, entry.service, "healthy"),
             stats |-> StatsUpdate(d.stats, entry)]

InitRender ==
    /\ max_errors = DefaultMaxErrors
    /\ max_logs = DefaultMaxLogs
    /\ LET d == Recorded(PriorEntries, DefaultMaxErrors, DefaultMaxLogs)
       IN /\ logs = d.logs
          /\ errors = d.errors
          /\ service_status = d.status
          /\ request_stats = d.stats
    /\ ai_stats = None
    /\ view = NoView
    /\ passes = 0
    /\ mc = NoIterator
    /\ fetch_hist = NoFetch
    /\ calls = <<>>
    /\ config = RenderConfig
    /\ running = TRUE
    /\ docker_processes = <<"search_api">>
    /\ proc = [w \in RenderConfig.docker |-> "running"]
    /\ pc = [w \in RenderConfig.docker \cup {FileThread} |->
                IF w = FileThread THEN "check" ELSE "read"]
    /\ cur = [w \in RenderConfig.docker \cup {FileThread} |-> NoEntry]
    /\ tmp = [w \in RenderConfig.docker \cup {FileThread} |-> 0]
    /\ fidx = 0
    /\ observed = {}
    /\ file_lines = [s \in {} |-> <<>>]
    /\ file_mode = [s \in {} |-> "ok"]
    /\ file_positions = EmptyDict
    /\ nread = [w \in RenderConfig.docker \cup {FileThread} |-> 0]
    /\ unavail = {}
    /\ mpc = "render_status"
    /\ fin = FALSE
    /\ cidx = 0
    /\ exit_status = "none"
    /\ signals = 0
    /\ InitNoParse

NextRender ==
    \/ \E w \in config.docker : \E line \in SourceLines(w), now \in NowValues :
           ReadLine(w, line, now)
    \/ \E w \in config.docker : AddLogSteps(w)
    \/ RenderLoop
    \/ MostCommonNext
    \/ CleanupTerminate
    \/ CrashExit

SpecRender == InitRender /\ [][NextRender]_vars

-----------------------------------------------------------------------------
(* The parsers alone.  SpecParse gives one line to one parser.             *)

ParseMonths == {12, 13}
ParseHours == {23, 25}
ParseStatuses == {200, 399, 400, 499, 500}

\* the lines given to the parsers
ParseLines ==
    {UvicornLine(level, "GET", "/a", status) :
         level \in {"INFO", "WARNING", "ERROR", "DEBUG"},
         status \in ParseStatuses}
    \cup {UvicornLine("INFO", "POST", "/api/v1/urls/159356/crawling", 200)}
    \cup {GinLine(month, hour, status, "GET", "/api/tags") :
              month \in ParseMonths, hour \in ParseHours,
              status \in ParseStatuses}
    \cup {CeleryLine(month, hour, level, "Task succeeded") :
              month \in ParseMonths, hour \in ParseHours,
              level \in {"INFO", "WARNING", "ERROR", "DEBUG"}}
    \cup {CoordinatorLine(month, hour, level, "Started") :
              month \in ParseMonths, hour \in ParseHours,
              level \in {"INFO", "ERROR", "warning"}}
    \cup {NginxAccessLine("GET", "/a", status) : status \in ParseStatuses}
    \cup {NginxErrorLine(month, hour, level, "connect() failed") :
              month \in ParseMonths, hour \in ParseHours,
              level \in {"error", "warn", "crit", "notice"}}
    \cup {DiscoveredLine(2, url, 1, 1) : url \in {"a.io", "https://example.com"}}
    \cup {TextLine("some text", kw) :
              kw \in {{}, {"Error:"}, {"failed"}, {"warn"}, {"Traceback"},
                      {"WARNING"}}}
    \cup {BlankLine}

InitParse ==
    /\ InitDashboard(DefaultMaxErrors, DefaultMaxLogs)
    /\ InitMonitor(MonitorConfig)
    /\ pline \in ParseLines
    /\ pparser \in ParserNames
    /\ presult = NotParsed

\* parser.parse(line)
ApplyParse(now) ==
    /\ presult = NotParsed
    /\ presult' = Parse(pparser, pline, now)
    /\ UNCHANGED <<dashVars, viewVars, calls, monVars, pline, pparser>>

NextParse == \E now \in NowValues : ApplyParse(now)

SpecParse == InitParse /\ [][NextParse]_vars

-----------------------------------------------------------------------------
(* History operators. *)

\* the entries of the first n add_log calls, in call order
CallEntries(n) == [i \in 1..n |-> calls[i].entry]

AllCallEntries == CallEntries(Len(calls))

\* the error-level entries among them
ErrorCalls == SelectSeq(AllCallEntries, IsErrorLevel)

\* the worker has appended its entry to the logs and not yet returned
InCallPcs == {"al_errors", "al_status", "al_get", "al_set"}

\* the add_log call calls[i] has returned
CallCompleted(i) ==
    ~(/\ calls[i].thread \in DOMAIN pc
      /\ pc[calls[i].thread] \in InCallPcs
      /\ \A j \in (i + 1)..Len(calls) : calls[j].thread # calls[i].thread)

\* the configured sources whose entries are meant for a service of the
\* status panel
PanelSources(s) ==
    IF s = "nginx" THEN {"nginx_access", "nginx_error"} ELSE {s}

\* the four collections after the first n add_log calls, each run to
\* completion in call order
RECURSIVE DashAfter(_)
DashAfter(n) ==
    IF n = 0
    THEN [logs |-> <<>>, errors |-> <<>>, status |-> EmptyDict, stats |-> <<>>]
    ELSE LET d == DashAfter(n - 1)
             entry == calls[n].entry
         IN [logs |-> LogsAppend(d.logs, entry),
             errors |-> ErrorsAppend(d.errors, entry),
             status |-> StatusUpdate(d.status, entry),
             stats |-> StatsUpdate(d.stats, entry)]

\* the calls whose entry carries the path
CallsWithPath(path) ==
    {i \in 1..Len(calls) : HasPath(calls[i].entry)
                            /\ calls[i].entry.extra["path"] = path}

-----------------------------------------------------------------------------
(* Claims. *)

\* C3: after any sequence of add_log calls the error history holds at most
\* max_errors entries, and they are exactly the most recent max_errors
\* entries of level ERROR or CRITICAL, in insertion order.
C3_ErrorHistory ==
    /\ Len(errors) <= max_errors
    /\ errors = LastN(ErrorCalls, max_errors)

\* capacity + 1 error-level entries were added: the oldest is gone and the
\* newest is present
C3_Witness ==
    /\ max_errors > 0
    /\ Len(ErrorCalls) = max_errors + 1
    /\ ErrorCalls[1] # ErrorCalls[2]
    /\ errors[1] # ErrorCalls[1]
    /\ errors[Len(errors)] = ErrorCalls[Len(ErrorCalls)]

\* C4: the recent-log buffer holds the most recent max_logs entries
\* whatever their level, and the log panel lists the buffer newest first
\* by insertion order, whatever timestamps the entries carry.
C4_RecentLogs ==
    /\ logs = LastN(AllCallEntries, max_logs)
    /\ view.rendered =>
           view.logs.rows = Reverse(LastN(CallEntries(view.logs_at), max_logs))

\* two entries are shown, the older one with the later timestamp first
\* recorded: it is listed last
C4_Witness ==
    /\ view.rendered
    /\ Len(view.logs.rows) = 2
    /\ view.logs.rows[2] = calls[view.logs_at - 1].entry
    /\ view.logs.rows[1] = calls[view.logs_at].entry
    /\ view.logs.rows[2].timestamp > view.logs.rows[1].timestamp
    /\ ~IsErrorLevel(view.logs.rows[1])

\* C5: add_log(entry) appends entry to the recent logs and marks
\* entry.service healthy; it appends to the error history iff the level is
\* ERROR or CRITICAL; it increments the counter of extra's path, and no
\* other counter, iff extra contains a path; the external statistics and
\* the health of every other service stay as they were.
C5_AddLogEffect ==
    [][Len(calls') > Len(calls) =>
         LET entry == calls'[Len(calls')].entry
             error == entry.level \in {"ERROR", "CRITICAL"}
             counted == entry.extra # None /\ "path" \in DOMAIN entry.extra
             paths == {request_stats[i][1] : i \in 1..Len(request_stats)}
                          \cup {request_stats'[i][1] : i \in 1..Len(request_stats')}
         IN /\ logs' = LastN(Append(logs, entry), max_logs)
            /\ errors' = IF error THEN LastN(Append(errors, entry), max_errors)
                         ELSE errors
            /\ DOMAIN service_status' = DOMAIN service_status \cup {entry.service}
            /\ service_status'[entry.service] = "healthy"
            /\ \A s \in DOMAIN service_status \ {entry.service} :
                   service_status'[s] = service_status[s]
            /\ \A p \in paths :
                   CounterGet(request_stats', p) =
                       CounterGet(request_stats, p)
                           + (IF counted /\ p = entry.extra["path"] THEN 1 ELSE 0)
            /\ counted => CounterGet(request_stats', entry.extra["path"]) =
                              CounterGet(request_stats, entry.extra["path"]) + 1
            /\ ai_stats' = ai_stats]_vars

\* add_log has been called with an error-level entry that carries a path,
\* with an entry whose extra holds fields but no path, and with an entry of
\* another level without extra fields, after a fetch has set the statistics
C5_Witness ==
    /\ Len(calls) = 3
    /\ IsErrorLevel(calls[1].entry) /\ HasPath(calls[1].entry)
    /\ Truthy(calls[2].entry.extra) /\ ~HasPath(calls[2].entry)
    /\ ~IsErrorLevel(calls[3].entry) /\ ~Truthy(calls[3].entry.extra)
    /\ ai_stats # None
    /\ Len(request_stats) = 1

-----------------------------------------------------------------------------
(* Claims about the ingestion workers and the render loop (Spec). *)

\* C1: a completed render pass shows the errors, logs, request counters and
\* service health of one and the same prefix of the add_log calls: no
\* interleaving of the workers' add_log calls with the pass yields panels
\* that no such prefix explains.
C1_RenderConsistent ==
    (mpc = "sleep" /\ view.rendered) =>
        \E n \in 0..Len(calls) :
            LET d == DashAfter(n)
            IN /\ view.status = RenderStatus(d.status)
               /\ view.requests = RenderRequests(d.stats)
               /\ view.errors = RenderErrors(d.errors)
               /\ view.logs = RenderLogs(d.logs)

\* C2: once the add_log calls of all workers have returned, the counter of
\* every path equals the number of calls whose entry carried that path.
C2_NoLostIncrement ==
    (\A w \in Threads : pc[w] \notin AddLogPcs) =>
        \A i \in 1..Len(calls) :
            HasPath(calls[i].entry) =>
                CounterGet(request_stats, calls[i].entry.extra["path"]) =
                    Cardinality(CallsWithPath(calls[i].entry.extra["path"]))

\* C6: every entry a worker records carries the service name the worker is
\* configured with.
C6_ConfiguredService ==
    \A i \in 1..Len(calls) : calls[i].entry.service = calls[i].worker

\* C7: a service of the status panel is reported healthy once an entry from
\* its configured source has been recorded, and unknown as long as none has.
C7_PanelHealth ==
    \A s \in PanelServices :
        /\ (\E i \in 1..Len(calls) :
                calls[i].worker \in PanelSources(s) /\ CallCompleted(i))
               => RenderStatus(service_status)[s] = "healthy"
        /\ (\A i \in 1..Len(calls) : calls[i].worker \notin PanelSources(s))
               => RenderStatus(service_status)[s] = "unknown"

-----------------------------------------------------------------------------
(* Claims about shutdown (SpecShutdown). *)

\* C8: once cleanup has finished and the monitor has exited, no
\* `docker logs -f` process launched by a worker is still running, whatever
\* the interleaving of the workers' launch and registration with cleanup's
\* pass over the registered processes.
C8_NoLeakedProcess ==
    (mpc = "exited" /\ exit_status = "0") =>
        \A w \in config.docker : proc[w] # "running"

\* C9: once SIGINT or SIGTERM has been delivered the running flag is false,
\* a worker that has observed the flag has left its loop, and when the
\* process has exited its status is 0, also when cleanup ran twice.
C9_SignalShutdown ==
    signals > 0 =>
        /\ ~running
        /\ \A w \in observed : pc[w] = "done"
        /\ mpc = "exited" => exit_status = "0"

-----------------------------------------------------------------------------
(* Claims about the parsers (SpecParse). *)

\* C10: parse of each of the seven parsers returns a LogEntry or absent for
\* every line, also for a line that matches the parser's pattern with an
\* impossible month or hour: it never raises.
C10_NoParserRaises == presult.kind \in {"none", "entry", "absent"}

-----------------------------------------------------------------------------
(* Claims about the statistics fetch (SpecFetch). *)

\* C15: after a fetch answered with status 200 and a decodable body ai_stats
\* is exactly that body, with nothing kept from the snapshot before; after
\* a fetch that fails (exception, other status, undecodable body) ai_stats
\* is what it was before the fetch.
C15_FetchReplaces ==
    fetch_hist # NoFetch =>
        LET o == fetch_hist.last
        IN IF o.raised = "" /\ o.status = 200 /\ o.decodable
           THEN ai_stats = o.body
           ELSE ai_stats = fetch_hist.before

\* a snapshot with five fields has been replaced by one with a single field
C15_Witness ==
    /\ fetch_hist.before # None
    /\ DOMAIN fetch_hist.before = {"pending_pages", "processing_pages",
                                  "evaluated_pages", "failed_pages",
                                  "workers_active"}
    /\ fetch_hist.last = Response(200, TRUE, [pending_pages |-> 2])
    /\ ai_stats = [pending_pages |-> 2]

\* C16: a render made after some fetch has succeeded, whatever object the
\* fetch returned, does not show the connecting state.
C16_NoConnectingAfterSuccess ==
    (view.rendered /\ fetch_hist.succeeded) => ~view.ai.connecting

-----------------------------------------------------------------------------
(* Claims about the entries the parsers return (SpecParse). *)

\* C18: every entry a parser returns has a level in INFO, WARNING, ERROR,
\* CRITICAL, whatever level token the line carries.
C18_LevelInSet ==
    presult.kind = "entry" =>
        presult.entry.level \in {"INFO", "WARNING", "ERROR", "CRITICAL"}

\* the parser took structured fields from the line
ExtractsFields ==
    \/ pparser = "UvicornParser" /\ pline.shape = "uvicorn"
    \/ pparser = "GinParser" /\ pline.shape = "gin"
    \/ pparser = "NginxAccessParser" /\ pline.shape \in {"nginx_access", "uvicorn"}
    \/ pparser = "CrawlerParser" /\ pline.shape = "discovered"

\* C19: the extra of a returned entry is a non-empty mapping when the parser
\* extracted structured fields from the line, and None, not an empty
\* mapping, in every other case.
C19_ExtraAbsentOrFilled ==
    presult.kind = "entry" =>
        IF ExtractsFields
        THEN presult.entry.extra # None /\ DOMAIN presult.entry.extra # {}
        ELSE presult.entry.extra = None

\* the parser derives levels from the HTTP status of the line
StatusParsers == {"UvicornParser", "GinParser", "NginxAccessParser"}

\* the level the specification prescribes for a status
PrescribedLevel(status) ==
    IF status < 400 THEN "INFO"
    ELSE IF status <= 499 THEN "WARNING"
    ELSE "ERROR"

\* the level a uvicorn level token stands for by itself
TokenLevel(tok) ==
    IF tok \in {"WARNING", "ERROR", "CRITICAL"} THEN tok ELSE "INFO"

\* C20 as stated: for every line matched by a parser that derives the level
\* from the status, the level is INFO below 400, WARNING from 400 to 499 and
\* ERROR from 500.
C20_StatusLevelEveryLine ==
    (pparser \in StatusParsers /\ presult.kind = "entry") =>
        presult.entry.level = PrescribedLevel(pline.status)

\* C20, amended: the level is the one prescribed for the status for every
\* line matched by the Gin or the access-log parser, and for the lines
\* matched by the uvicorn parser whose level token stands for INFO; a
\* uvicorn line with the token WARNING, ERROR or CRITICAL keeps the level
\* of its token whatever the status.
C20_StatusLevel ==
    (pparser \in StatusParsers /\ presult.kind = "entry") =>
        IF pparser = "UvicornParser" /\ TokenLevel(pline.level) # "INFO"
        THEN presult.entry.level = TokenLevel(pline.level)
        ELSE presult.entry.level = PrescribedLevel(pline.status)

\* the uvicorn parser has returned WARNING for a line with the token DEBUG
\* and status 499
C20_Witness ==
    /\ pparser = "UvicornParser"
    /\ pline.level = "DEBUG"
    /\ pline.status = 499
    /\ presult.kind = "entry"
    /\ presult.entry.level = "WARNING"

-----------------------------------------------------------------------------
(* Claims about the render loop (SpecRender). *)

\* C17: render never raises; the main thread is never unwound by an
\* exception of a render pass, also when a pass runs while a worker records
\* entries with new request paths.
C17_RenderNeverCrashes == mpc # "c_cleanup" /\ exit_status # "1"

-----------------------------------------------------------------------------
\* C11: a live-stream worker that has returned after reading a line was
\* stopped (the monitor is no longer running) or its stream has ended (the
\* process is not running): no line makes the worker return while the
\* stream is open and the monitor runs.
C11_ReadsUntilStopped ==
    \A w \in config.docker :
        (pc[w] = "done" /\ nread[w] > 0) => (~running \/ proc[w] # "running")

-----------------------------------------------------------------------------
\* C12: a step in which a worker finds its source unavailable (the launch of
\* `docker logs` fails, or a log file is missing or unreadable) changes
\* nothing of the aggregator and nothing of any other worker; a live-stream
\* worker returns without a process, the file worker goes on to its next
\* file or to the sleep before its next cycle, and it never returns while
\* the monitor runs.
C12_UnavailableSourceIsLocal ==
    [][/\ unavail' # unavail =>
            /\ UNCHANGED <<dashVars, calls, docker_processes>>
            /\ \E u \in Threads :
                   /\ \A w \in Threads \ {u} :
                          pc'[w] = pc[w] /\ cur'[w] = cur[w]
                   /\ u = FileThread => pc'[u] \in {"tail", "sleep"}
                   /\ u # FileThread => pc'[u] = "done" /\ proc'[u] = "none"
       /\ pc'[FileThread] = "done" => ~running']_vars

\* the container could not be started and the log file was missing or
\* unreadable; the file was polled again and a line of it has been recorded
C12_Witness ==
    /\ unavail = {"ai_evaluator", "nginx_access"}
    /\ pc["ai_evaluator"] = "done"
    /\ \E i \in 1..Len(calls) : calls[i].worker = "nginx_access"

-----------------------------------------------------------------------------
\* the lines of a tailed file that no poll has consumed yet
Unread(s) ==
    IF s \in DOMAIN file_positions
    THEN Len(file_lines[s]) - file_positions[s]
    ELSE 0

\* C13: every tailed file has a worker of its own: a file with unread lines
\* never waits for the worker while the worker is held inside another file.
C13_OwnWorkerPerFile ==
    \A s \in Range(config.files) :
        (Unread(s) > 0 /\ pc[FileThread] \in {"readline"} \cup AddLogPcs)
            => SourceOf(FileThread) = s

-----------------------------------------------------------------------------
\* the call is the first one that records its line of its source
FirstRecord(i) ==
    \A k \in 1..(i - 1) :
        ~(calls[k].worker = calls[i].worker /\ calls[k].lineno = calls[i].lineno)

\* the entry the parser of a tailed file gives for the n-th line of the file
FileEntry(s, n) ==
    Parse(MonitorParsers[s], file_lines[s][n], CHOOSE now \in NowValues : TRUE)

\* C14: within one source the entries are recorded in line order: of two
\* lines of the same tailed file or live stream, the entry of the earlier
\* line is added to the aggregator first, and the entry added for the n-th
\* line of a tailed file is the entry of that line, whatever the other
\* workers do in between.
C14_LineOrder ==
    /\ \A i, j \in 1..Len(calls) :
           (i < j /\ calls[i].worker = calls[j].worker
                  /\ FirstRecord(i) /\ FirstRecord(j))
               => calls[i].lineno < calls[j].lineno
    /\ \A i \in 1..Len(calls) :
           calls[i].thread = FileThread =>
               /\ calls[i].lineno \in 1..Len(file_lines[calls[i].worker])
               /\ FileEntry(calls[i].worker, calls[i].lineno).kind = "entry"
               /\ FileEntry(calls[i].worker, calls[i].lineno).entry
                      = calls[i].entry

\* two different lines of the same tailed file have been recorded, the
\* second line of the file after the first
C14_Witness ==
    /\ Len(calls) = 2
    /\ calls[1].worker = "nginx_access" /\ calls[2].worker = "nginx_access"
    /\ calls[1].lineno = 1 /\ calls[2].lineno = 2
    /\ calls[1].entry # calls[2].entry

-----------------------------------------------------------------------------
(* Claims about the grammars of the parsers (SpecParse). *)

\* the line is in the grammar of the parser: the parser's pattern matches
\* and the date and time it carries exist; the task-worker parser has a
\* fallback for, and the crawler parser takes, every line that is not blank
MatchesGrammar(parser, line) ==
    CASE parser = "UvicornParser" -> line.shape = "uvicorn"
      [] parser = "GinParser" ->
             line.shape = "gin" /\ StrptimeOk(line.month, line.hour)
      [] parser = "CoordinatorParser" ->
             line.shape = "coordinator" /\ StrptimeOk(line.month, line.hour)
      [] parser = "NginxAccessParser" ->
             line.shape \in {"nginx_access", "uvicorn"}
      [] parser = "NginxErrorParser" ->
             line.shape = "nginx_error" /\ StrptimeOk(line.month, line.hour)
      [] parser = "CeleryParser" ->
             /\ ~IsBlank(line)
             /\ line.shape = "celery" => StrptimeOk(line.month, line.hour)
      [] parser = "CrawlerParser" -> ~IsBlank(line)

\* the parser takes level and message from fields of the line (the other
\* cases derive the level from keywords anywhere in the text)
StructuredMatch(parser, line) ==
    /\ MatchesGrammar(parser, line)
    /\ parser = "CeleryParser" => line.shape = "celery"
    /\ parser # "CrawlerParser"

\* the level the grammar of the parser prescribes for a structured line
GrammarLevel(parser, line) ==
    CASE parser = "UvicornParser" ->
             IF TokenLevel(line.level) = "INFO"
             THEN PrescribedLevel(line.status) ELSE TokenLevel(line.level)
      [] parser \in {"GinParser", "NginxAccessParser"} ->
             PrescribedLevel(line.status)
      [] parser = "CoordinatorParser" -> line.level
      [] parser = "NginxErrorParser" -> Upper(line.level)
      [] parser = "CeleryParser" ->
             IF line.level = "DEBUG" THEN "INFO" ELSE line.level

\* the message the grammar of the parser prescribes for a structured line
GrammarMessage(parser, line) ==
    IF parser \in StatusParsers
    THEN RequestMessage(line.method, line.path, line.status)
    ELSE line.msg

\* C21: for every parser, a line that is not in the parser's grammar yields
\* absent, and a line that is in it yields an entry, with the level and the
\* message the grammar prescribes when the line is structured.
C21_GrammarDecides ==
    presult.kind # "none" =>
        IF MatchesGrammar(pparser, pline)
        THEN /\ presult.kind = "entry"
             /\ StructuredMatch(pparser, pline) =>
                    /\ presult.entry.level = GrammarLevel(pparser, pline)
                    /\ presult.entry.message = GrammarMessage(pparser, pline)
        ELSE presult.kind = "absent"

\* the request parsers whose lines C22 is about
RequestParsers == {"UvicornParser", "GinParser"}

\* C22: for every line the uvicorn or the Gin parser matches, the message
\* is 'METHOD PATH -> STATUS' and extra holds the method, the path and the
\* status as an integer, all of that line; the Gin line with status 500
\* yields ERROR.
C22_RequestFields ==
    (pparser \in RequestParsers /\ presult.kind = "entry") =>
        /\ presult.entry.message =
               pline.method \o " " \o pline.path \o " -> "
                   \o ToString(pline.status)
        /\ {"method", "path", "status"} \subseteq DOMAIN presult.entry.extra
        /\ presult.entry.extra.method = pline.method
        /\ presult.entry.extra.path = pline.path
        /\ presult.entry.extra.status = pline.status
        /\ presult.entry.extra.status \in Nat
        /\ (pparser = "GinParser" /\ pline.status = 500) =>
               /\ presult.entry.level = "ERROR"
               /\ presult.entry.message = "GET /api/tags -> 500"

\* the uvicorn parser has parsed the sample line of the tests
C22_Witness ==
    /\ pparser = "UvicornParser"
    /\ pline = UvicornLine("INFO", "POST", "/api/v1/urls/159356/crawling", 200)
    /\ presult.kind = "entry"
    /\ presult.entry.level = "INFO"
    /\ presult.entry.message = "POST /api/v1/urls/159356/crawling -> 200"
    /\ presult.entry.extra.status = 200

-----------------------------------------------------------------------------
(* Claims about the tailing of log files (SpecTail). *)

\* C23: the first poll of a tailed file remembers the length of the file
\* when the file exists and 0 when it does not, so that no line that was in
\* the file before the monitor started is ever recorded, and a file that
\* appears later is read from its beginning.
C23_StartOffset ==
    [][/\ \A s \in Range(config.files) :
              (s \notin DOMAIN file_positions /\ s \in DOMAIN file_positions')
                  => file_positions'[s] = IF file_mode[s] = "missing" THEN 0
                                          ELSE Len(file_lines[s])
       /\ \A i \in 1..Len(calls') :
              calls'[i].entry.extra.path # OldLine.path]_vars

\* the file held a line when the monitor started; the line appended after
\* it has been recorded, the old one has not
C23_Witness ==
    /\ Len(file_lines["ai_evaluator"]) = 2
    /\ file_lines["ai_evaluator"][1] = OldLine
    /\ Len(calls) = 1
    /\ calls[1].lineno = 2
    /\ calls[1].entry.extra.path = "/api/tags"

-----------------------------------------------------------------------------
(* Claims about the lines that yield no entry (SpecDrop). *)

\* the line is blank, the service has no registered parser, or the line is
\* not in the request grammar of the service's uvicorn parser
NoEntryLine(s, line) ==
    \/ line.shape = "blank"
    \/ s \notin DOMAIN MonitorParsers
    \/ s \in DOMAIN MonitorParsers /\ MonitorParsers[s] = "UvicornParser"
           /\ line.shape # "uvicorn"

\* C24: reading a line that yields no entry (a blank line, a line the
\* parser returns absent for, a line of a service without a parser) changes
\* neither the recent logs, the error history, the request counters nor
\* the service health, makes no add_log call, and the worker goes on to
\* the next line.
C24_NoEntryNoEffect ==
    [][(pc[FileThread] = "readline" /\ nread'[FileThread] # nread[FileThread])
          => LET s == SourceOf(FileThread)
                 read == ReadAt(file_lines[s], nread[FileThread])
             IN NoEntryLine(s, read.line) =>
                    /\ UNCHANGED <<logs, errors, request_stats, service_status>>
                    /\ calls' = calls
                    /\ cur' = cur
                    /\ pc'[FileThread] = "readline"]_vars

\* the worker has read a line its parser does not match, a line of a
\* service without a parser and a blank line, and nothing was recorded
C24_Witness ==
    /\ file_lines["coordinator"] = <<TextLine("Application startup complete.", {})>>
    /\ file_lines["redis"] = <<TextLine("Ready to accept connections", {}), BlankLine>>
    /\ file_positions = [coordinator |-> 1, redis |-> 2]
    /\ calls = <<>>
    /\ logs = <<>>
    /\ service_status = EmptyDict

-----------------------------------------------------------------------------
(* Claims about the start of the program (SpecStart). *)

\* C25: with a configuration file that is missing or cannot be parsed the
\* program never gets to run(): no worker thread is started, no child
\* process is launched, and when the process has ended its exit status
\* is 1.
C25_FatalStartup ==
    config.file # "ok" =>
        /\ mpc \in {"main", "init", "exited"}
        /\ mpc = "exited" => exit_status = "1"
        /\ \A w \in Threads : pc[w] = "off"
        /\ \A w \in config.docker : proc[w] = "none"
        /\ docker_processes = <<>>

\* the process has ended with status 1 on a configuration file that yaml
\* cannot parse
C25_Witness ==
    /\ config.file = "unparseable"
    /\ mpc = "exited"
    /\ exit_status = "1"

-----------------------------------------------------------------------------
(* The request panel.  SpecTop starts a Dashboard that has recorded         *)
(* requests for TopK + 1 paths, first seen in the order /p1, /p2, ..., each *)
(* path between one and MaxCount times; add_log and render run to          *)
(* completion as in SpecDash.                                              *)

MaxCount == 2

\* an entry n times
Times(entry, n) == [k \in 1..n |-> entry]

\* counts[i] requests for path i, for the paths 1..i in turn
RECURSIVE RequestsOf(_, _)
RequestsOf(counts, i) ==
    IF i = 0 THEN <<>>
    ELSE RequestsOf(counts, i - 1) \o Times(PriorEntries[i], counts[i])

\* the entry handed to add_log in SpecTop: one more request for the path
\* that was recorded last
TopEntries == {PriorEntries[TopK + 1]}

InitTop ==
    /\ max_errors = DefaultMaxErrors
    /\ max_logs = DefaultMaxLogs
    /\ \E counts \in [1..(TopK + 1) -> 1..MaxCount] :
           LET d == Recorded(RequestsOf(counts, TopK + 1),
                             DefaultMaxErrors, DefaultMaxLogs)
           IN /\ logs = d.logs
              /\ errors = d.errors
              /\ service_status = d.status
              /\ request_stats = d.stats
    /\ ai_stats = None
    /\ view = NoView
    /\ passes = 0
    /\ mc = NoIterator
    /\ fetch_hist = NoFetch
    /\ calls = <<>>
    /\ InitMonitor(MonitorConfig)
    /\ InitNoParse

NextTop ==
    \/ \E entry \in TopEntries : AddLog(entry)
    \/ \E outcome \in DashFetchOutcomes : Render(outcome)

SpecTop == InitTop /\ [][NextTop]_vars

\* the sum of the counts of a counter, added up from its last item
RECURSIVE TotalOf(_)
TotalOf(c) ==
    IF c = <<>> THEN 0 ELSE TotalOf(SubSeq(c, 1, Len(c) - 1)) + c[Len(c)][2]

\* item a of counter c goes before item b: a higher count, or the same
\* count and recorded first
RanksBefore(c, a, b) ==
    LET Pos(item) == CHOOSE i \in 1..Len(c) : c[i] = item
    IN \/ a[2] > b[2]
       \/ a[2] = b[2] /\ Pos(a) < Pos(b)

\* panel is the request panel of counter c
IsTopPanel(panel, c) ==
    LET top == panel.top
        Listed == {top[i] : i \in 1..Len(top)}
        Items == {c[j] : j \in 1..Len(c)}
    IN /\ Len(top) = IF Len(c) < TopK THEN Len(c) ELSE TopK
       /\ Listed \subseteq Items
       /\ \A i, j \in 1..Len(top) : i < j => RanksBefore(c, top[i], top[j])
       /\ \A a \in Listed, b \in Items \ Listed : RanksBefore(c, a, b)
       /\ panel.total = TotalOf(c)

\* C26: every render fills the request panel with the TopK paths of the
\* highest counts, in descending order of count, equal counts in the order
\* the paths were first recorded, and with the sum of all counts as total
C26_TopPaths ==
    [][view' # view => IsTopPanel(view'.requests, request_stats)]_vars

\* a panel of TopK paths that leaves a path out, holds two paths of the
\* same count and two of different counts
C26_Witness ==
    LET top == view.requests.top
    IN /\ view.rendered
       /\ Len(top) = TopK
       /\ view.requests = RenderRequests(request_stats)
       /\ Len(request_stats) > TopK
       /\ \E i \in 1..(TopK - 1) : top[i][2] = top[i + 1][2]
       /\ \E i \in 1..(TopK - 1) : top[i][2] > top[i + 1][2]
       /\ \E j \in 1..Len(request_stats) : request_stats[j][2] = top[TopK][2]
             /\ \A i \in 1..TopK : top[i] # request_stats[j]

\* C27: a poll does not move the remembered offset of a file past a
\* fragment that has no newline yet: when the file ends in such a fragment,
\* an offset that a poll stores lies before the fragment
C27_CompleteLinesOnly ==
    [][\A s \in DOMAIN file_lines :
          (/\ s \in DOMAIN file_positions
           /\ file_positions'[s] # file_positions[s]
           /\ EndsInPartialLine(file_lines'[s]))
          => file_positions'[s] < Len(file_lines'[s])]_vars

\* C28: a poll that ends without an error leaves the remembered offset of
\* its file equal to the length of the file, also when the file was
\* truncated since the poll before
C28_OffsetIsLength ==
    [][(/\ pc[FileThread] = "readline"
        /\ pc'[FileThread] # "readline"
        /\ nread' = nread)
       => LET s == SourceOf(FileThread)
          IN file_positions'[s] = Len(file_lines'[s])]_vars

\* C29: no line of a file is forwarded to the aggregator twice: no two
\* add_log calls of the file thread are for the line at the same offset
C29_AtMostOnce ==
    \A i, j \in 1..Len(calls) :
        (/\ i < j
         /\ calls[i].thread = FileThread
         /\ calls[j].thread = FileThread)
        => calls[i].lineno # calls[j].lineno

C31_HealthNeverReverts ==
    [][/\ \A s \in DOMAIN service_status :
              /\ s \in DOMAIN service_status'
              /\ service_status'[s] = service_status[s]
              /\ service_status[s] = "healthy"
       /\ \A s \in PanelServices :
              /\ view.status[s] = "healthy" => view'.status[s] = "healthy"
              /\ (view' # view /\ s \in DOMAIN service_status)
                 => view'.status[s] = "healthy"]_vars

\* celery logged first, entries of other services followed, and a render
\* whose fetch failed still shows celery healthy
C31_Witness ==
    /\ Len(calls) >= 2
    /\ calls[1].entry.service = "celery"
    /\ \A i \in 2..Len(calls) : calls[i].entry.service # "celery"
    /\ view.rendered
    /\ view.logs_at = Len(calls)
    /\ view.ai.connecting
    /\ view.status["celery"] = "healthy"
    /\ view.status["nginx"] = "healthy"

\* C32: for every crawler line 'Discovered N links from URL: X new, Y
\* duplicates', also when URL contains a colon, the crawler parser returns an
\* entry with total_links = N, new_links = X, duplicate_links = Y,
\* source_url = URL and the message 'Discovered X new links from URL...';
\* for every other crawler line the entry has no extra
C32_DiscoveredLinks ==
    (pparser = "CrawlerParser" /\ presult # NotParsed /\ ~IsBlank(pline))
    => /\ presult.kind = "entry"
       /\ IF pline.shape = "discovered"
          THEN /\ presult.entry.extra =
                      [total_links |-> pline.total, new_links |-> pline.new,
                       duplicate_links |-> pline.dupes,
                       source_url |-> pline.url]
               /\ presult.entry.message =
                      "Discovered " \o ToString(pline.new)
                          \o " new links from " \o pline.url \o "..."
          ELSE presult.entry.extra = None

-----------------------------------------------------------------------------
(* The AI-progress panel.  SpecProgress is the Dashboard rendered after     *)
(* fetches that answer with every object of page counts between 0 and      *)
(* MaxPages in which any of the counts may be missing (the processing      *)
(* count is MaxPages or missing), or that fail.                            *)

MaxPages == 1

\* the page counts render_ai_progress reads
PageKeys ==
    {"pending_pages", "processing_pages", "evaluated_pages", "failed_pages"}

ProgressBodies ==
    {b \in UNION {[K -> 0..MaxPages] : K \in SUBSET PageKeys} :
        "processing_pages" \in DOMAIN b => b["processing_pages"] = MaxPages}

ProgressOutcomes ==
    {Response(200, TRUE, b) : b \in ProgressBodies}
        \cup {RequestRaised("ConnectionError")}

NextProgress == \E outcome \in ProgressOutcomes : Render(outcome)

SpecProgress == InitFetch /\ [][NextProgress]_vars

\* C33: the completion of a rendered AI-progress panel is evaluated /
\* (pending + processing + evaluated + failed) in percent, 0 when that sum
\* is 0, and between 0 and 100; a count missing from the fetched object
\* counts as 0
C33_Completion ==
    (view.rendered /\ ~view.ai.connecting) =>
        LET Count(k) == IF k \in DOMAIN ai_stats THEN ai_stats[k] ELSE 0
            sum == Count("pending_pages") + Count("processing_pages")
                       + Count("evaluated_pages") + Count("failed_pages")
            c == view.ai.completion
        IN /\ c.den > 0
           /\ sum > 0 => c.num * sum = Count("evaluated_pages") * 100 * c.den
           /\ sum = 0 => c.num = 0
           /\ 0 <= c.num
           /\ c.num <= 100 * c.den

\* a panel of an object without the failed count, with evaluated pages and
\* pages that are not evaluated yet
C33_Witness ==
    /\ view.rendered
    /\ ~view.ai.connecting
    /\ "failed_pages" \notin DOMAIN ai_stats
    /\ "evaluated_pages" \in DOMAIN ai_stats
    /\ view.ai.evaluated > 0
    /\ view.ai.total > view.ai.evaluated
    /\ view.ai.completion.num > 0
    /\ view.ai.completion.num < 100 * view.ai.completion.den

-----------------------------------------------------------------------------
(* The address of the statistics fetch.  SpecUrl is the Dashboard of a      *)
(* monitor whose configuration names a coordinator base URL, rendered and  *)
(* fed as in SpecDash.                                                     *)

\* the coordinator base URLs of the configurations of SpecUrl
ConfiguredUrls == {"http://localhost:8000", "http://coordinator:8001"}

UrlConfigs ==
    {[docker |-> MonitorConfig.docker, files |-> MonitorConfig.files,
      coordinator_url |-> u] : u \in ConfiguredUrls}

InitUrl ==
    /\ InitDashboard(DefaultMaxErrors, DefaultMaxLogs)
    /\ \E c \in UrlConfigs : InitMonitor(c)
    /\ InitNoParse

SpecUrl == InitUrl /\ [][NextDash]_vars

\* C34: every statistics fetch goes to the coordinator base URL of the
\* loaded configuration, followed by /coordinator/worker-stats
C34_ConfiguredUrl ==
    fetch_hist # NoFetch =>
        fetch_hist.url = config.coordinator_url \o "/coordinator/worker-stats"

====
